---- MODULE Spec2Model ----
(***************************************************************************)
(* The email agent's API route (src/unnamed/part_001): the POST handler    *)
(* and the two pipelines it dispatches to, analyzeEmail and composeEmail.  *)
(*                                                                         *)
(* A JavaScript string is modelled as a sequence of characters, each       *)
(* character a one-character string.  The two non-ASCII characters of the  *)
(* source, the bullet U+2022 and the em dash U+2014, are the characters     *)
(* "BULLET" and "EMDASH".  An absent (undefined) property is the value      *)
(* undefined, which is not a string.  Regular expressions are modelled by   *)
(* operators that compute what the expression matches, greedy quantifiers   *)
(* and leftmost match included.                                             *)
(*                                                                         *)
(* Requests are well-typed (AnalyzeRequest | ComposeRequest, or a payload   *)
(* with another mode); the only property the handler itself guards against  *)
(* being absent is content, so content may be undefined.                    *)
(***************************************************************************)
EXTENDS Integers, Sequences, FiniteSets, TLC

VARIABLES
    request,    \* the payload of the request being handled
    response,   \* the Response returned for it: [status, body], or NoResponse
    pc,         \* "received": POST has not run yet; "responded": it has returned
    invoked,    \* the pipelines POST called while handling request
    served,     \* the client's log: <<request, response>> of every request served so far
    round,      \* how many times the client has fed a reply body back in
    agent       \* the state of the EmailAgent component, NotMounted where only the route runs

vars == <<request, response, pc, invoked, served, round, agent>>

----------------------------------------------------------------------------
(* Characters and the string primitives of the JavaScript runtime.          *)

UpperSeq ==
    <<"A","B","C","D","E","F","G","H","I","J","K","L","M",
      "N","O","P","Q","R","S","T","U","V","W","X","Y","Z">>
LowerSeq ==
    <<"a","b","c","d","e","f","g","h","i","j","k","l","m",
      "n","o","p","q","r","s","t","u","v","w","x","y","z">>
Upper == {UpperSeq[i] : i \in 1..26}
Lower == {LowerSeq[i] : i \in 1..26}
Digits == {"0","1","2","3","4","5","6","7","8","9"}
\* \w of a regular expression
WordChars == Upper \cup Lower \cup Digits \cup {"_"}
\* \s of a regular expression, and what trim() removes
WS == {" ", "\n", "\t", "\r"}

undefined == <<"<undefined>">>

LowerOf == [c \in Upper |-> LowerSeq[CHOOSE i \in 1..26 : UpperSeq[i] = c]]
UpperOf == [c \in Lower |-> UpperSeq[CHOOSE i \in 1..26 : LowerSeq[i] = c]]

Min(S) == CHOOSE x \in S : \A y \in S : x <= y

\* s[i], or "" (no character) outside the string
charAt(s, i) == IF i >= 1 /\ i <= Len(s) THEN s[i] ELSE ""

toLowerCase(s) == [i \in 1..Len(s) |-> IF s[i] \in Upper THEN LowerOf[s[i]] ELSE s[i]]

toUpperCase(s) == [i \in 1..Len(s) |-> IF s[i] \in Lower THEN UpperOf[s[i]] ELSE s[i]]

slice(s, from) == SubSeq(s, from, Len(s))

\* s.startsWith(w, i - 1)
startsWithAt(s, i, w) == i + Len(w) - 1 <= Len(s) /\ SubSeq(s, i, i + Len(w) - 1) = w

\* s.includes(w)
includes(s, w) == \E i \in 1..(Len(s) - Len(w) + 1) : SubSeq(s, i, i + Len(w) - 1) = w

\* the first index from i on whose character is not in C: where a greedy C* stops
RECURSIVE runEnd(_, _, _)
runEnd(s, i, C) == IF charAt(s, i) \in C THEN runEnd(s, i + 1, C) ELSE i

trimStart(s) == slice(s, runEnd(s, 1, WS))

RECURSIVE trimEnd(_)
trimEnd(s) == IF s # <<>> /\ s[Len(s)] \in WS THEN trimEnd(SubSeq(s, 1, Len(s) - 1)) ELSE s

trim(s) == trimEnd(trimStart(s))

\* \b at index i: exactly one of s[i-1], s[i] is a word character
boundary(s, i) == (charAt(s, i - 1) \in WordChars) # (charAt(s, i) \in WordChars)

RECURSIVE join(_, _)
join(parts, sep) ==
    IF parts = <<>> THEN <<>>
    ELSE IF Len(parts) = 1 THEN parts[1]
    ELSE parts[1] \o sep \o join(Tail(parts), sep)

\* s.split(/\s+/)
RECURSIVE splitWS(_)
splitWS(s) ==
    LET at == {k \in 1..Len(s) : s[k] \in WS}
    IN  IF at = {} THEN <<s>>
        ELSE LET k == Min(at)
             IN  <<SubSeq(s, 1, k - 1)>> \o splitWS(slice(s, runEnd(s, k, WS)))

\* the elements of seq that are non-empty strings, in order: filter(Boolean)
RECURSIVE filterNonEmpty(_)
filterNonEmpty(seq) ==
    IF seq = <<>> THEN <<>>
    ELSE (IF seq[1] = <<>> THEN <<>> ELSE <<seq[1]>>) \o filterNonEmpty(Tail(seq))

\* String(n) of a non-negative integer
RECURSIVE toDecimal(_)
toDecimal(n) ==
    LET d == <<"0","1","2","3","4","5","6","7","8","9">>[(n % 10) + 1]
    IN  IF n < 10 THEN <<d>> ELSE toDecimal(n \div 10) \o <<d>>

capitalize(value) ==
    IF value = <<>> THEN value
    ELSE toUpperCase(<<value[1]>>) \o slice(value, 2)

\* map(capitalize) over a list of strings
capitalizeEach(parts) == [i \in 1..Len(parts) |-> capitalize(parts[i])]

titleCase(value) == join(capitalizeEach(splitWS(toLowerCase(value))), <<" ">>)

----------------------------------------------------------------------------
(* The word lists.                                                          *)

POSITIVE_WORDS ==
    << <<"t","h","a","n","k">>,
       <<"a","p","p","r","e","c","i","a","t","e">>,
       <<"g","r","e","a","t">>,
       <<"g","l","a","d">>,
       <<"p","l","e","a","s","e","d">>,
       <<"h","a","p","p","y">>,
       <<"e","x","c","i","t","e","d">> >>

NEGATIVE_WORDS ==
    << <<"c","o","n","c","e","r","n">>,
       <<"i","s","s","u","e">>,
       <<"p","r","o","b","l","e","m">>,
       <<"d","e","l","a","y","e","d">>,
       <<"d","e","l","a","y">>,
       <<"b","l","o","c","k","e","d">>,
       <<"u","r","g","e","n","t">>,
       <<"f","r","u","s","t","r","a","t","e","d">>,
       <<"d","i","s","a","p","p","o","i","n","t","e","d">> >>

URGENCY_WORDS ==
    << <<"u","r","g","e","n","t">>,
       <<"a","s","a","p">>,
       <<"i","m","m","e","d","i","a","t","e","l","y">>,
       <<"p","r","i","o","r","i","t","y">>,
       <<"i","m","p","o","r","t","a","n","t">> >>

\* a variant of hits that counts every occurrence of a word, not each word once
hitsCountingRepeats(words, normalized) ==
    Cardinality({<<i, k>> \in (1..Len(words)) \X (1..Len(normalized)) :
                    startsWithAt(normalized, k, words[i])})

\* words.filter((word) => normalized.includes(word)).length
hits(words, normalized) == Cardinality({i \in 1..Len(words) : includes(normalized, words[i])})

detectSentiment(content) ==
    LET normalized == toLowerCase(content)
        positiveHits == hits(POSITIVE_WORDS, normalized)
        negativeHits == hits(NEGATIVE_WORDS, normalized)
    IN  IF positiveHits = negativeHits THEN "neutral"
        ELSE IF positiveHits > negativeHits THEN "positive" ELSE "negative"

\* /\b\d{1,2}\/\d{1,2}\b/.test(s)
hasDateToken(s) ==
    \E i \in 1..Len(s) :
        /\ s[i] \in Digits
        /\ boundary(s, i)
        /\ LET e1 == runEnd(s, i, Digits)
               e2 == runEnd(s, e1 + 1, Digits)
           IN  /\ e1 - i \in {1, 2}
               /\ charAt(s, e1) = "/"
               /\ e2 - (e1 + 1) \in {1, 2}
               /\ boundary(s, e2)

TIMING_PHRASES == << <<"n","e","x","t"," ","w","e","e","k">>, <<"s","o","o","n">>, <<"f","o","l","l","o","w"," ","u","p">> >>

\* /\b(next week|soon|follow up)\b/.test(s)
hasTimingPhrase(s) ==
    \E i \in 1..Len(s) : \E p \in 1..Len(TIMING_PHRASES) :
        /\ startsWithAt(s, i, TIMING_PHRASES[p])
        /\ boundary(s, i)
        /\ boundary(s, i + Len(TIMING_PHRASES[p]))

\* a variant of determinePriority that looks for a date before it looks for urgency
determinePriorityDateFirst(content) ==
    LET normalized == toLowerCase(content)
    IN  IF hasDateToken(normalized) THEN "medium"
        ELSE IF \E w \in 1..Len(URGENCY_WORDS) : includes(normalized, URGENCY_WORDS[w])
            THEN "high"
        ELSE IF hasTimingPhrase(normalized) THEN "medium"
        ELSE "low"

determinePriority(content) ==
    LET normalized == toLowerCase(content)
    IN  IF \E w \in 1..Len(URGENCY_WORDS) : includes(normalized, URGENCY_WORDS[w]) THEN "high"
        ELSE IF hasDateToken(normalized) THEN "medium"
        ELSE IF hasTimingPhrase(normalized) THEN "medium"
        ELSE "low"

----------------------------------------------------------------------------
(* Task extraction.                                                         *)

\* content.split(/\r?\n/)
RECURSIVE splitLines(_)
splitLines(s) ==
    LET at == {k \in 1..Len(s) : s[k] = "\n"}
    IN  IF at = {} THEN <<s>>
        ELSE LET k == Min(at)
                 cut == IF charAt(s, k - 1) = "\r" THEN k - 2 ELSE k - 1
             IN  <<SubSeq(s, 1, cut)>> \o splitLines(slice(s, k + 1))

\* where a match of /^(\*|-|\d+\.)/ on s ends (the index after it), 0 without a match
bulletEnd(s) ==
    IF charAt(s, 1) \in {"*", "-"} THEN 2
    ELSE LET e == runEnd(s, 1, Digits)
         IN  IF e > 1 /\ charAt(s, e) = "." THEN e + 1 ELSE 0

TASK_CUES == << <<"p","l","e","a","s","e">>, <<"c","a","n"," ","y","o","u">>, <<"c","o","u","l","d"," ","y","o","u">>, <<"a","c","t","i","o","n">> >>

\* the predicate of lines.filter(...): a bullet after trimming, or a cue in any case
isTaskLine(line) ==
    \/ bulletEnd(trim(line)) # 0
    \/ \E c \in 1..Len(TASK_CUES) : includes(toLowerCase(line), TASK_CUES[c])

\* line.replace(/^(\*|-|\d+\.)\s*/, "")
stripBullet(line) ==
    LET e == bulletEnd(line)
    IN  IF e = 0 THEN line ELSE slice(line, runEnd(line, e, WS))

\* a variant of duePhraseEnd whose last alternative is a bare word (\w+)
duePhraseEndBareWord(low, p) ==
    LET wk == runEnd(low, p + 4, WS)
        d1 == runEnd(low, p, Digits)
        d2 == runEnd(low, d1 + 1, Digits)
        w1 == runEnd(low, p, WordChars)
    IN  IF startsWithAt(low, p, <<"n","e","x","t">>) /\ wk > p + 4 /\ startsWithAt(low, wk, <<"w","e","e","k">>)
            THEN wk + 4
        ELSE IF startsWithAt(low, p, <<"t","o","m","o","r","r","o","w">>) THEN p + 8
        ELSE IF startsWithAt(low, p, <<"t","o","d","a","y">>) THEN p + 5
        ELSE IF d1 - p \in {1, 2} /\ charAt(low, d1) = "/" /\ d2 > d1 + 1
            THEN IF d2 - (d1 + 1) > 2 THEN d1 + 3 ELSE d2
        ELSE IF w1 > p THEN w1
        ELSE 0

\* where the alternation (?:next\s+week|tomorrow|today|\d{1,2}\/\d{1,2}|\w+\s+\d{1,2})
\* matched at p ends (the index after it), alternatives in order, 0 without a match;
\* low is the lower-cased string (the i flag)
duePhraseEnd(low, p) ==
    LET wk == runEnd(low, p + 4, WS)
        d1 == runEnd(low, p, Digits)
        d2 == runEnd(low, d1 + 1, Digits)
        w1 == runEnd(low, p, WordChars)
        s1 == runEnd(low, w1, WS)
        n1 == runEnd(low, s1, Digits)
    IN  IF startsWithAt(low, p, <<"n","e","x","t">>) /\ wk > p + 4 /\ startsWithAt(low, wk, <<"w","e","e","k">>)
            THEN wk + 4
        ELSE IF startsWithAt(low, p, <<"t","o","m","o","r","r","o","w">>) THEN p + 8
        ELSE IF startsWithAt(low, p, <<"t","o","d","a","y">>) THEN p + 5
        ELSE IF d1 - p \in {1, 2} /\ charAt(low, d1) = "/" /\ d2 > d1 + 1
            THEN IF d2 - (d1 + 1) > 2 THEN d1 + 3 ELSE d2
        ELSE IF w1 > p /\ s1 > w1 /\ n1 > s1
            THEN IF n1 - s1 > 2 THEN s1 + 2 ELSE n1
        ELSE 0

\* /\bby\s+(...)/i matched at i: the start of group 1, 0 without a match
byGroupStart(s, low, i) ==
    LET p == runEnd(low, i + 2, WS)
    IN  IF boundary(low, i) /\ startsWithAt(low, i, <<"b","y">>) /\ p > i + 2
           /\ duePhraseEnd(low, p) # 0
        THEN p ELSE 0

\* group 1 of description.match(/\bby\s+(...)/i), undefined without a match
matchBy(description) ==
    LET low == toLowerCase(description)
        at == {i \in 1..Len(description) : byGroupStart(description, low, i) # 0}
    IN  IF at = {} THEN undefined
        ELSE LET p == byGroupStart(description, low, Min(at))
             IN  SubSeq(description, p, duePhraseEnd(low, p) - 1)

\* where (\w+\s+\d{1,2}) matched at p ends (the index after it), 0 without a match
wordNumberEnd(low, p) ==
    LET w1 == runEnd(low, p, WordChars)
        s1 == runEnd(low, w1, WS)
        n1 == runEnd(low, s1, Digits)
    IN  IF w1 > p /\ s1 > w1 /\ n1 > s1
        THEN IF n1 - s1 > 2 THEN s1 + 2 ELSE n1
        ELSE 0

\* /\b(?:due|deadline)\s+(\w+\s+\d{1,2})/i matched at i: the start of group 1, or 0
dueGroupStart(low, i) ==
    LET k == IF startsWithAt(low, i, <<"d","u","e">>) THEN i + 3
             ELSE IF startsWithAt(low, i, <<"d","e","a","d","l","i","n","e">>) THEN i + 8 ELSE 0
        p == runEnd(low, k, WS)
    IN  IF boundary(low, i) /\ k # 0 /\ p > k /\ wordNumberEnd(low, p) # 0 THEN p ELSE 0

\* group 1 of line.match(/\b(?:due|deadline)\s+(\w+\s+\d{1,2})/i), undefined without a match
matchDue(line) ==
    LET low == toLowerCase(line)
        at == {i \in 1..Len(line) : dueGroupStart(low, i) # 0}
    IN  IF at = {} THEN undefined
        ELSE LET p == dueGroupStart(low, Min(at))
             IN  SubSeq(line, p, wordNumberEnd(low, p) - 1)

\* /\bfor\s+([A-Z][a-z]+)/ matched at i: the start of group 1, 0 without a match
ownerGroupStart(s, i) ==
    LET p == runEnd(s, i + 3, WS)
    IN  IF boundary(s, i) /\ startsWithAt(s, i, <<"f","o","r">>) /\ p > i + 3
           /\ charAt(s, p) \in Upper /\ charAt(s, p + 1) \in Lower
        THEN p ELSE 0

\* group 1 of description.match(/\bfor\s+([A-Z][a-z]+)/), undefined without a match
matchOwner(description) ==
    LET at == {i \in 1..Len(description) : ownerGroupStart(description, i) # 0}
    IN  IF at = {} THEN undefined
        ELSE LET p == ownerGroupStart(description, Min(at))
             IN  SubSeq(description, p, runEnd(description, p + 1, Lower) - 1)

\* dueMatch?.[1] ? titleCase(dueMatch[1]) : undefined
dueOf(dueMatch) ==
    IF dueMatch # undefined /\ dueMatch # <<>> THEN titleCase(dueMatch) ELSE undefined

\* a ?? b
orElse(a, b) == IF a # undefined THEN a ELSE b

\* the task object built from a line and its description
describe(line, description) ==
    [description |-> capitalize(description),
     due |-> dueOf(orElse(matchBy(description), matchDue(line))),
     owner |-> matchOwner(description)]

\* the callback of taskLines.map(...)
taskOf(line) == describe(line, trim(stripBullet(line)))

mapTasks(taskLines) == [i \in 1..Len(taskLines) |-> taskOf(taskLines[i])]

\* Boolean(task.description)
hasDescription(task) == task.description # <<>>

\* a line that qualifies by a cue only
isCueOnlyLine(line) == isTaskLine(line) /\ bulletEnd(trim(line)) = 0

\* a line that qualifies by its bullet
isBulletLine(line) == bulletEnd(trim(line)) # 0

\* a variant of extractTasks that collects the bulleted lines first, then the cue lines
extractTasksBulletsFirst(content) ==
    SelectSeq(mapTasks(SelectSeq(splitLines(content), isBulletLine)
                       \o SelectSeq(splitLines(content), isCueOnlyLine)), hasDescription)

\* a variant of extractTasks without the final filter on the description
extractTasksUnfiltered(content) == mapTasks(SelectSeq(splitLines(content), isTaskLine))

\* lines.filter(isTaskLine).map(taskOf).filter((task) => Boolean(task.description))
extractTasks(content) ==
    SelectSeq(mapTasks(SelectSeq(splitLines(content), isTaskLine)), hasDescription)

----------------------------------------------------------------------------
(* Subject, summary, tags and follow-up of an analysis.                     *)

buildSubject(tasks, priority, sentiment) ==
    LET leadTask == IF tasks # <<>> THEN tasks[1].description ELSE <<>>
        tag == IF priority = "high" THEN <<"U","r","g","e","n","t">>
               ELSE IF sentiment = "positive" THEN <<"U","p","d","a","t","e">>
               ELSE <<"F","o","l","l","o","w","-","u","p">>
    IN  IF leadTask # <<>> THEN <<"[">> \o tag \o <<"]"," ">> \o leadTask
        ELSE IF priority = "high" THEN <<"[","U","r","g","e","n","t","]"," ","A","c","t","i","o","n"," ","r","e","q","u","i","r","e","d"," ","o","n"," ","l","a","t","e","s","t"," ","r","e","q","u","e","s","t">>
        ELSE IF priority = "medium" THEN <<"N","e","x","t"," ","s","t","e","p","s"," ","f","o","r"," ","y","o","u","r"," ","e","m","a","i","l">>
        ELSE <<"T","h","a","n","k","s"," ","f","o","r"," ","t","h","e"," ","u","p","d","a","t","e"," ","EMDASH"," ","h","e","r","e","'","s"," ","t","h","e"," ","p","l","a","n">>

\* s.replace(/\n+/g, " "): the first newline of a run becomes the space, the rest go
collapseNewlines(s) ==
    LET marked == [i \in 1..Len(s) |->
                      IF s[i] # "\n" THEN s[i]
                      ELSE IF charAt(s, i - 1) = "\n" THEN "" ELSE " "]
    IN  SelectSeq(marked, LAMBDA c : c # "")

\* s.split(/(?<=[.?!])\s+/)
RECURSIVE splitSentences(_)
splitSentences(s) ==
    LET at == {k \in 2..Len(s) : s[k] \in WS /\ s[k - 1] \in {".", "?", "!"}}
    IN  IF at = {} THEN <<s>>
        ELSE LET k == Min(at)
             IN  <<SubSeq(s, 1, k - 1)>> \o splitSentences(slice(s, runEnd(s, k, WS)))

\* seq.slice(0, n)
firstN(seq, n) == SubSeq(seq, 1, IF Len(seq) < n THEN Len(seq) ELSE n)

SUMMARY_SENTENCES == 3

\* a variant of summarize that appends the thread note to whatever summary it returns
summarizeNoteAlways(content, threadHistory) ==
    LET sentences == filterNonEmpty(splitSentences(collapseNewlines(content)))
        summary == join(firstN(sentences, SUMMARY_SENTENCES), <<" ">>)
        historyNote ==
            IF threadHistory # undefined /\ threadHistory # <<>>
            THEN <<" ","T","h","r","e","a","d"," ","c","o","n","t","e","x","t"," ","c","o","n","s","i","d","e","r","e","d"," ","(">> \o toDecimal(Len(splitWS(threadHistory)))
                 \o <<" ","w","o","r","d","s",")",".">>
            ELSE <<>>
    IN  (IF summary # <<>> THEN summary ELSE <<"N","o"," ","s","u","m","m","a","r","y"," ","a","v","a","i","l","a","b","l","e",".">>) \o historyNote

summarize(content, threadHistory) ==
    LET sentences == filterNonEmpty(splitSentences(collapseNewlines(content)))
        summary == join(firstN(sentences, SUMMARY_SENTENCES), <<" ">>)
        historyNote ==
            IF threadHistory # undefined /\ threadHistory # <<>>
            THEN <<" ","T","h","r","e","a","d"," ","c","o","n","t","e","x","t"," ","c","o","n","s","i","d","e","r","e","d"," ","(">> \o toDecimal(Len(splitWS(threadHistory)))
                 \o <<" ","w","o","r","d","s",")",".">>
            ELSE <<>>
    IN  IF summary # <<>> THEN summary ELSE <<"N","o"," ","s","u","m","m","a","r","y"," ","a","v","a","i","l","a","b","l","e",".">> \o historyNote

\* tags.add(tag) on an insertion-ordered Set
addTag(tags, tag) == IF \E i \in 1..Len(tags) : tags[i] = tag THEN tags ELSE Append(tags, tag)

\* a variant of buildTags that tags delegation whenever there are tasks
buildTagsDelegateAll(priority, sentiment, tasks) ==
    LET t1 == addTag(<<>>, IF priority = "high" THEN "Hot"
                           ELSE IF priority = "medium" THEN "Follow-up" ELSE "Backlog")
        t2 == addTag(t1, IF sentiment = "positive" THEN "Relationship"
                         ELSE IF sentiment = "negative" THEN "Risk" ELSE "Neutral")
        t3 == IF Len(tasks) > 0 THEN addTag(t2, "Action items") ELSE t2
    IN  IF Len(tasks) > 0 THEN addTag(t3, "Delegation") ELSE t3

buildTags(priority, sentiment, tasks) ==
    LET t1 == addTag(<<>>, IF priority = "high" THEN "Hot"
                           ELSE IF priority = "medium" THEN "Follow-up" ELSE "Backlog")
        t2 == addTag(t1, IF sentiment = "positive" THEN "Relationship"
                         ELSE IF sentiment = "negative" THEN "Risk" ELSE "Neutral")
        t3 == IF Len(tasks) > 0 THEN addTag(t2, "Action items") ELSE t2
    IN  IF \E i \in 1..Len(tasks) : tasks[i].owner # undefined
        THEN addTag(t3, "Delegation") ELSE t3

WAITING_WORDS == << <<"w","a","i","t">>, <<"a","w","a","i","t">>, <<"r","e","s","p","o","n","s","e">>, <<"h","e","a","r"," ","b","a","c","k">> >>

\* /\b(wait|await|response|hear back)\b/i.test(content)
isWaitingForResponse(content) ==
    LET low == toLowerCase(content)
    IN  \E i \in 1..Len(low) : \E w \in 1..Len(WAITING_WORDS) :
            /\ startsWithAt(low, i, WAITING_WORDS[w])
            /\ boundary(low, i)
            /\ boundary(low, i + Len(WAITING_WORDS[w]))

\* a variant of buildFollowUpRecommendation that looks at the tasks before the waiting words
buildFollowUpTasksFirst(priority, tasks, content) ==
    IF priority = "high"
        THEN "Follow up within 4 business hours and confirm ownership of each task."
    ELSE IF Len(tasks) > 0
        THEN "Log tasks in your system and share a progress update within 24 hours."
    ELSE IF isWaitingForResponse(content)
        THEN "Schedule a reminder in 2 days to check for updates."
    ELSE "Archive for now, revisit over the weekend for any broader updates."

buildFollowUpRecommendation(priority, tasks, content) ==
    LET waitingForResponse == isWaitingForResponse(content)
        hasTasks == Len(tasks) > 0
    IN  IF priority = "high"
            THEN "Follow up within 4 business hours and confirm ownership of each task."
        ELSE IF waitingForResponse
            THEN "Schedule a reminder in 2 days to check for updates."
        ELSE IF hasTasks
            THEN "Log tasks in your system and share a progress update within 24 hours."
        ELSE "Archive for now, revisit over the weekend for any broader updates."

----------------------------------------------------------------------------
(* The tone templates.                                                      *)

Tones == {"professional", "friendly", "concise", "assertive", "warm"}

professionalSubject ==
    <<"Q","u","i","c","k"," ","f","o","l","l","o","w","-","u","p"," ","o","n"," ","y","o",
      "u","r"," ","m","e","s","s","a","g","e">>
professionalOpening ==
    <<"T","h","a","n","k"," ","y","o","u"," ","f","o","r"," ","r","e","a","c","h","i","n",
      "g"," ","o","u","t","."," ","I"," ","w","a","n","t","e","d"," ","t","o"," ","f","o",
      "l","l","o","w"," ","u","p"," ","o","n"," ","y","o","u","r"," ","n","o","t","e",".">>
professionalClosing ==
    <<"L","e","t"," ","m","e"," ","k","n","o","w"," ","i","f"," ","y","o","u"," ","n","e",
      "e","d"," ","a","n","y","t","h","i","n","g"," ","e","l","s","e"," ","i","n"," ","t",
      "h","e"," ","m","e","a","n","t","i","m","e"," ","a","n","d"," ","I","'","l","l"," ",
      "h","a","p","p","i","l","y"," ","a","s","s","i","s","t",".">>
friendlySubject ==
    <<"T","h","a","n","k","s"," ","f","o","r"," ","t","h","e"," ","u","p","d","a","t","e",
      "!">>
friendlyOpening ==
    <<"T","h","a","n","k","s"," ","a"," ","b","u","n","c","h"," ","f","o","r"," ","t","h",
      "e"," ","m","e","s","s","a","g","e","."," ","I"," ","w","a","n","t","e","d"," ","t",
      "o"," ","k","e","e","p"," ","t","h","e"," ","m","o","m","e","n","t","u","m"," ","g",
      "o","i","n","g",".">>
friendlyClosing ==
    <<"L","o","o","k","i","n","g"," ","f","o","r","w","a","r","d"," ","t","o"," ","h","e",
      "a","r","i","n","g"," ","b","a","c","k"," ","w","h","e","n"," ","y","o","u"," ","h",
      "a","v","e"," ","a"," ","m","o","m","e","n","t",".">>
conciseSubject ==
    <<"F","o","l","l","o","w","i","n","g"," ","u","p">>
conciseOpening ==
    <<"A","p","p","r","e","c","i","a","t","e"," ","t","h","e"," ","n","o","t","e","."," ",
      "H","e","r","e","'","s"," ","w","h","a","t"," ","w","e","'","l","l"," ","d","o"," ",
      "n","e","x","t",":">>
conciseClosing ==
    <<"P","i","n","g"," ","m","e"," ","i","f"," ","p","r","i","o","r","i","t","i","e","s",
      " ","c","h","a","n","g","e",".">>
assertiveSubject ==
    <<"A","c","t","i","o","n"," ","n","e","e","d","e","d">>
assertiveOpening ==
    <<"T","h","a","n","k","s"," ","f","o","r"," ","t","h","e"," ","d","e","t","a","i","l",
      "s","."," ","T","o"," ","k","e","e","p"," ","u","s"," ","o","n"," ","s","c","h","e",
      "d","u","l","e"," ","w","e"," ","n","e","e","d"," ","t","o"," ","t","a","c","k","l",
      "e"," ","t","h","e"," ","f","o","l","l","o","w","i","n","g",":">>
assertiveClosing ==
    <<"P","l","e","a","s","e"," ","c","o","n","f","i","r","m"," ","t","h","e"," ","a","c",
      "t","i","o","n"," ","i","t","e","m","s"," ","s","o"," ","w","e"," ","c","a","n"," ",
      "c","l","o","s","e"," ","t","h","e"," ","l","o","o","p"," ","w","i","t","h","o","u",
      "t"," ","d","e","l","a","y",".">>
warmSubject ==
    <<"A","p","p","r","e","c","i","a","t","e"," ","t","h","e"," ","n","o","t","e">>
warmOpening ==
    <<"T","h","a","n","k"," ","y","o","u"," ","s","o"," ","m","u","c","h"," ","f","o","r",
      " ","y","o","u","r"," ","t","h","o","u","g","h","t","f","u","l"," ","m","e","s","s",
      "a","g","e","."," ","H","e","r","e","'","s"," ","h","o","w"," ","I","'","l","l"," ",
      "m","o","v","e"," ","t","h","i","n","g","s"," ","f","o","r","w","a","r","d",":">>
warmClosing ==
    <<"L","e","t"," ","m","e"," ","k","n","o","w"," ","h","o","w"," ","i","t"," ","a","l",
      "l"," ","l","a","n","d","s","EMDASH","a","l","w","a","y","s"," ","g","l","a","d"," ",
      "t","o"," ","s","u","p","p","o","r","t"," ","w","h","e","r","e"," ","I"," ","c","a",
      "n",".">>

FOLLOW_UP_TEMPLATES ==
    [tone \in Tones |->
        CASE tone = "professional" ->
                [subject |-> professionalSubject, opening |-> professionalOpening,
                 closing |-> professionalClosing]
          [] tone = "friendly" ->
                [subject |-> friendlySubject, opening |-> friendlyOpening,
                 closing |-> friendlyClosing]
          [] tone = "concise" ->
                [subject |-> conciseSubject, opening |-> conciseOpening,
                 closing |-> conciseClosing]
          [] tone = "assertive" ->
                [subject |-> assertiveSubject, opening |-> assertiveOpening,
                 closing |-> assertiveClosing]
          [] tone = "warm" ->
                [subject |-> warmSubject, opening |-> warmOpening,
                 closing |-> warmClosing]]

----------------------------------------------------------------------------
(* The reply of an analysis.                                                *)

\* opening.replace(/^(Thank you|Thanks)/, (match) => match === "Thanks" ? ... : ...)
personalize(opening, persona) ==
    IF startsWithAt(opening, 1, <<"T","h","a","n","k"," ","y","o","u">>)
        THEN <<"H","i"," ">> \o persona \o <<","," ","t","h","a","n","k"," ","y","o","u">> \o slice(opening, 10)
    ELSE IF startsWithAt(opening, 1, <<"T","h","a","n","k","s">>)
        THEN <<"H","i"," ">> \o persona \o <<","," ","t","h","a","n","k","s">> \o slice(opening, 7)
    ELSE opening

\* the callback of tasks.map(...) in generateReply
bulletOf(task) ==
    LET due == IF task.due # undefined /\ task.due # <<>>
               THEN <<" ","(","d","u","e"," ">> \o task.due \o <<")">> ELSE <<>>
        owner == IF task.owner # undefined /\ task.owner # <<>>
                 THEN <<" ","EMDASH"," ","o","w","n","e","r",":"," ">> \o task.owner ELSE <<>>
    IN  <<"BULLET"," ">> \o task.description \o due \o owner

bulletsOf(tasks) == [i \in 1..Len(tasks) |-> bulletOf(tasks[i])]

generateReply(tone, tasks, summary, persona) ==
    LET template == FOLLOW_UP_TEMPLATES[tone]
        intro == IF persona # undefined /\ persona # <<>>
                 THEN personalize(template.opening, persona)
                 ELSE template.opening
        bulletSection ==
            IF Len(tasks) > 0
            THEN <<"\n","\n","H","e","r","e","'","s"," ","w","h","a","t"," ","I","'","m"," ","t","r","a","c","k","i","n","g",":","\n">> \o join(bulletsOf(tasks), <<"\n">>)
            ELSE <<>>
        body == intro \o <<"\n","\n">> \o summary \o bulletSection \o <<"\n","\n">>
                \o template.closing \o <<"\n","\n","B","e","s","t",",","\n","Y","o","u","r"," ","E","m","a","i","l"," ","A","g","e","n","t">>
    IN  [subject |-> template.subject, body |-> body]

\* a variant of analysisOf that answers medium priority in the assertive tone as well
analysisOfAssertiveFromMedium(content, sentiment, priority, tasks, summary, persona) ==
    [summary |-> summary,
     sentiment |-> sentiment,
     priority |-> priority,
     subjectSuggestion |-> buildSubject(tasks, priority, sentiment),
     tags |-> buildTags(priority, sentiment, tasks),
     tasks |-> tasks,
     followUpRecommendation |-> buildFollowUpRecommendation(priority, tasks, content),
     recommendedReply |->
         generateReply(IF priority = "low" THEN "professional" ELSE "assertive",
                       tasks, summary, persona)]

\* the payload analyzeEmail returns, from the signals it computed
analysisOf(content, sentiment, priority, tasks, summary, persona) ==
    [summary |-> summary,
     sentiment |-> sentiment,
     priority |-> priority,
     subjectSuggestion |-> buildSubject(tasks, priority, sentiment),
     tags |-> buildTags(priority, sentiment, tasks),
     tasks |-> tasks,
     followUpRecommendation |-> buildFollowUpRecommendation(priority, tasks, content),
     recommendedReply |->
         generateReply(IF priority = "high" THEN "assertive" ELSE "professional",
                       tasks, summary, persona)]

\* a variant of analyzeEmail that summarizes the thread history along with the content
analyzeEmailWithThread(content, threadHistory, persona) ==
    analysisOf(content, detectSentiment(content), determinePriority(content),
               extractTasks(content),
               summarize(IF threadHistory = undefined THEN content
                         ELSE threadHistory \o <<" ">> \o content, threadHistory),
               persona)

analyzeEmail(content, threadHistory, persona) ==
    analysisOf(content, detectSentiment(content), determinePriority(content),
               extractTasks(content), summarize(content, threadHistory), persona)

----------------------------------------------------------------------------
(* The compose pipeline.                                                    *)

\* a variant of craftSubjectFromObjective that tests the keywords in the opposite order
craftSubjectFeedbackFirst(objective, fallback) ==
    LET normalized == toLowerCase(objective)
    IN  IF objective = <<>> THEN fallback
        ELSE IF includes(normalized, <<"f","e","e","d","b","a","c","k">>)
            THEN <<"F","e","e","d","b","a","c","k"," ","a","n","d"," ","p","r","o","p","o","s","e","d"," ","i","m","p","r","o","v","e","m","e","n","t","s">>
        ELSE IF includes(normalized, <<"m","e","e","t","i","n","g">>) THEN <<"P","r","o","p","o","s","e","d"," ","a","g","e","n","d","a"," ","f","o","r"," ","o","u","r"," ","m","e","e","t","i","n","g">>
        ELSE IF includes(normalized, <<"i","n","t","r","o">>) THEN <<"I","n","t","r","o","d","u","c","t","i","o","n"," ","a","n","d"," ","n","e","x","t"," ","s","t","e","p","s">>
        ELSE IF includes(normalized, <<"u","p","d","a","t","e">>) THEN <<"Q","u","i","c","k"," ","p","r","o","j","e","c","t"," ","u","p","d","a","t","e">>
        ELSE capitalize(objective)

craftSubjectFromObjective(objective, fallback) ==
    LET normalized == toLowerCase(objective)
    IN  IF objective = <<>> THEN fallback
        ELSE IF includes(normalized, <<"u","p","d","a","t","e">>) THEN <<"Q","u","i","c","k"," ","p","r","o","j","e","c","t"," ","u","p","d","a","t","e">>
        ELSE IF includes(normalized, <<"i","n","t","r","o">>) THEN <<"I","n","t","r","o","d","u","c","t","i","o","n"," ","a","n","d"," ","n","e","x","t"," ","s","t","e","p","s">>
        ELSE IF includes(normalized, <<"m","e","e","t","i","n","g">>) THEN <<"P","r","o","p","o","s","e","d"," ","a","g","e","n","d","a"," ","f","o","r"," ","o","u","r"," ","m","e","e","t","i","n","g">>
        ELSE IF includes(normalized, <<"f","e","e","d","b","a","c","k">>)
            THEN <<"F","e","e","d","b","a","c","k"," ","a","n","d"," ","p","r","o","p","o","s","e","d"," ","i","m","p","r","o","v","e","m","e","n","t","s">>
        ELSE capitalize(objective)

\* templateOpening.replace(/^Thank you/, "thank you").replace(/^Thanks/, "thanks")
soften(templateOpening) ==
    LET a == IF startsWithAt(templateOpening, 1, <<"T","h","a","n","k"," ","y","o","u">>)
             THEN <<"t","h","a","n","k"," ","y","o","u">> \o slice(templateOpening, 10) ELSE templateOpening
    IN  IF startsWithAt(a, 1, <<"T","h","a","n","k","s">>) THEN <<"t","h","a","n","k","s">> \o slice(a, 7) ELSE a

craftOpening(templateOpening, audience, tone) ==
    LET recipient == trim(audience)
        greeting == IF tone \in {"friendly", "warm"} THEN <<"H","i">> ELSE <<"H","e","l","l","o">>
    IN  IF recipient = <<>> THEN templateOpening
        ELSE greeting \o <<" ">> \o recipient \o <<","," ">> \o soften(templateOpening)

\* s.replace(/\s+/g, " "): the first character of a whitespace run becomes the space
collapseWS(s) ==
    LET marked == [i \in 1..Len(s) |->
                      IF s[i] \notin WS THEN s[i]
                      ELSE IF charAt(s, i - 1) \in WS THEN "" ELSE " "]
    IN  SelectSeq(marked, LAMBDA c : c # "")

PREVIEW_LENGTH == 140

\* a variant of buildPreview that appends the ellipsis to every preview
buildPreviewAlwaysEllipsis(body) ==
    LET condensed == trim(collapseWS(body))
    IN  SubSeq(condensed, 1, IF Len(condensed) < PREVIEW_LENGTH THEN Len(condensed)
                             ELSE PREVIEW_LENGTH) \o <<".",".",".">>

buildPreview(body) ==
    LET condensed == trim(collapseWS(body))
    IN  SubSeq(condensed, 1, IF Len(condensed) < PREVIEW_LENGTH THEN Len(condensed)
                             ELSE PREVIEW_LENGTH)
        \o (IF Len(condensed) > PREVIEW_LENGTH THEN <<".",".",".">> ELSE <<>>)

BOLDING_THRESHOLD == 2

\* a variant of buildCadenceTip whose threshold is reached with two points
buildCadenceTipFromTwo(tone, cleanPoints) ==
    LET base == IF tone = "assertive"
                    THEN "Set a reminder to nudge the recipient within 1 business day."
                ELSE IF tone = "concise"
                    THEN "Share a short recap if you do not hear back within 2 days."
                ELSE "Send a friendly check-in if there's no response within 3 days."
    IN  IF Len(cleanPoints) >= BOLDING_THRESHOLD
        THEN base \o " Consider bolding the key decisions to make scanning easier."
        ELSE base

buildCadenceTip(tone, cleanPoints) ==
    LET base == IF tone = "assertive"
                    THEN "Set a reminder to nudge the recipient within 1 business day."
                ELSE IF tone = "concise"
                    THEN "Share a short recap if you do not hear back within 2 days."
                ELSE "Send a friendly check-in if there's no response within 3 days."
    IN  IF Len(cleanPoints) > BOLDING_THRESHOLD
        THEN base \o " Consider bolding the key decisions to make scanning easier."
        ELSE base

\* keyPoints.map(trim).filter(Boolean).map(strip one leading "-")
RECURSIVE cleanKeyPoints(_)
cleanKeyPoints(keyPoints) ==
    IF keyPoints = <<>> THEN <<>>
    ELSE LET point == trim(keyPoints[1])
         IN  (IF point = <<>> THEN <<>>
              ELSE IF point[1] = "-" THEN <<trim(slice(point, 2))>>
              ELSE <<point>>) \o cleanKeyPoints(Tail(keyPoints))

\* cleanPoints.map((point) => `BULLET ${capitalize(point)}`)
pointBullets(cleanPoints) ==
    [i \in 1..Len(cleanPoints) |-> <<"BULLET"," ">> \o capitalize(cleanPoints[i])]

\* the body template of composeEmail
composeBody(opening, objective, bodyPoints, callout, closing, signoff) ==
    opening \o <<"\n","\n">>
    \o (IF objective # <<>>
        THEN <<"O","b","j","e","c","t","i","v","e",":"," ">> \o capitalize(objective) \o <<"\n","\n">> ELSE <<>>)
    \o bodyPoints \o callout \o <<"\n","\n">> \o closing \o <<"\n","\n">> \o signoff

\* the payload composeEmail returns, from the subject, the body and the cleaned points
draftOf(subject, body, tone, cleanPoints) ==
    [subject |-> subject,
     preview |-> buildPreview(body),
     body |-> body,
     cadenceTip |-> buildCadenceTip(tone, cleanPoints)]

composeWith(audience, objective, tone, cleanPoints, callToAction, signature, toneTemplate) ==
    draftOf(craftSubjectFromObjective(objective, toneTemplate.subject),
            composeBody(craftOpening(toneTemplate.opening, audience, tone),
                        objective,
                        IF Len(cleanPoints) > 0 THEN join(pointBullets(cleanPoints), <<"\n">>)
                        ELSE <<"BULLET"," ","K","e","y"," ","d","e","t","a","i","l","s"," ","a","r","e"," ","i","n","c","l","u","d","e","d"," ","i","n"," ","t","h","e"," ","a","t","t","a","c","h","m","e","n","t","s",".">>,
                        IF callToAction # undefined /\ callToAction # <<>>
                        THEN <<"\n","\n","N","e","x","t"," ","u","p",":"," ">> \o capitalize(callToAction) \o <<".">>
                        ELSE <<>>,
                        toneTemplate.closing,
                        IF signature # undefined THEN signature
                        ELSE IF tone \in {"friendly", "warm"}
                            THEN <<"A","l","l"," ","t","h","e"," ","b","e","s","t",",","\n","Y","o","u","r"," ","E","m","a","i","l"," ","A","g","e","n","t">>
                        ELSE <<"B","e","s","t"," ","r","e","g","a","r","d","s",",","\n","Y","o","u","r"," ","E","m","a","i","l"," ","A","g","e","n","t">>),
            tone, cleanPoints)

composeEmail(audience, objective, tone, keyPoints, callToAction, signature) ==
    composeWith(audience, objective, tone, cleanKeyPoints(keyPoints), callToAction,
                signature, FOLLOW_UP_TEMPLATES[tone])

----------------------------------------------------------------------------
(* The route handler.                                                       *)

\* a variant of optionalTrim that leaves the value as it came
noTrim(value) == value

\* value?.trim()
optionalTrim(value) == IF value = undefined THEN undefined ELSE trim(value)

\* new Response(JSON.stringify(body), { status })
Response(status, body) == [status |-> status, body |-> body]

\* the analyze branch of POST, content being payload.content?.trim()
postAnalyze(payload, content) ==
    IF content = undefined \/ content = <<>>
    THEN [response |-> Response(400, [error |-> "Email content is required."]),
          calls |-> {}]
    ELSE [response |->
              Response(200, analyzeEmail(content, payload.threadHistory, payload.persona)),
          calls |-> {"analyzeEmail"}]

\* a variant of POST whose analyze branch is the default
POSTDefaultAnalyze(payload) ==
    IF payload.mode = "compose" THEN
        [response |->
             Response(200, composeEmail(trim(payload.audience), trim(payload.objective),
                                        payload.tone, payload.keyPoints,
                                        optionalTrim(payload.callToAction),
                                        optionalTrim(payload.signature))),
         calls |-> {"composeEmail"}]
    ELSE postAnalyze([threadHistory |-> undefined, persona |-> undefined],
                     optionalTrim(payload.content))

\* what POST returns for payload, and the pipelines it called on the way
POST(payload) ==
    IF payload.mode = "analyze" THEN postAnalyze(payload, optionalTrim(payload.content))
    ELSE IF payload.mode = "compose" THEN
        [response |->
             Response(200, composeEmail(trim(payload.audience), trim(payload.objective),
                                        payload.tone, payload.keyPoints,
                                        optionalTrim(payload.callToAction),
                                        optionalTrim(payload.signature))),
         calls |-> {"composeEmail"}]
    ELSE [response |-> Response(400, [error |-> "Unsupported mode."]), calls |-> {}]

----------------------------------------------------------------------------
(* The requests the model is run on.                                        *)

\* the longest content, in fragments, and the longest keyPoints list
MaxFragments == 3
MaxKeyPoints == 3
\* how often a drafted reply is fed back in
MaxRounds == 1
\* the longest session, in requests
MaxSession == 4

\* every list of at most n elements of pool
Lists(pool, n) == UNION {[1..k -> pool] : k \in 0..n}

\* every concatenation of at most n fragments of pool
Texts(pool, n) == {join(parts, <<>>) : parts \in Lists(pool, n)}

BlankFragments == { <<" ">>, <<"\n">>, <<"\t">>, <<"\r","\n">>, <<"o","k">> }

SentimentFragments ==
    { <<"T","h","a","n","k","s"," ">>, <<"t","h","a","n","k"," ","y","o","u"," ">>, <<"G","R","E","A","T"," ">>, <<"d","e","l","a","y","e","d"," ">>, <<"d","e","l","a","y"," ">>, <<"u","r","g","e","n","t"," ">>,
      <<"I","s","s","u","e"," ">>, <<"f","i","n","e"," ">> }

PriorityFragments ==
    { <<"A","S","A","P"," ">>, <<"u","n","i","m","p","o","r","t","a","n","t">>, <<"5","/","1","2">>, <<"1","2","/","3","4","5">>, <<"N","e","x","t"," ","W","e","e","k">>, <<"s","o","o","n","e","r">>,
      <<"s","o","o","n">>, <<" ">>, <<"x">> }

TaskFragments ==
    { <<"P","l","e","a","s","e"," ","s","h","i","p"," ","b","y"," ","M","a","y"," ","1","2","\n">>, <<"-"," ","f","o","r"," ","J","o","r","d","a","n","\n">>, <<"*"," ","d","e","a","d","l","i","n","e"," ","j","u","n","e"," ","7","\n">>, <<"*","\n">>,
      <<" "," ","-"," ","i","n","d","e","n","t","e","d","\n">>, <<"n","o","t","e","s","\n">>, <<"1","2","."," ">>, <<"c","o","u","l","d"," ","y","o","u"," ">>, <<"b","y"," ","t","o","m","o","r","r","o","w"," ">>,
      <<"\r","\n">> }

FollowUpFragments ==
    { <<"I"," ","w","i","l","l"," ","w","a","i","t"," ">>, <<"w","a","i","t","i","n","g"," ">>, <<"A","w","a","i","t">>, <<"r","e","s","p","o","n","s","e","s"," ">>, <<"h","e","a","r"," ","b","a","c","k"," ">>,
      <<"u","r","g","e","n","t"," ">>, <<"-"," ","c","a","l","l"," ","S","a","m","\n">>, <<"b","y"," ","5","/","1","2"," ">>, <<"x">> }

\* the worked example of the documentation
ExampleContent ==
    <<"P","l","e","a","s","e"," ","u","p","d","a","t","e"," ","t","h","e"," ","d","o","c",
      "s"," ","b","y"," ","T","h","u","r","s","d","a","y","."," ","T","h","a","n","k","s",
      " ","s","o"," ","m","u","c","h",","," ","t","h","i","s"," ","i","s"," ","u","r","g",
      "e","n","t","!">>

AnalyzeContents ==
    {undefined, ExampleContent}
    \cup Texts(BlankFragments, MaxFragments)
    \cup Texts(SentimentFragments, MaxFragments)
    \cup Texts(PriorityFragments, MaxFragments)
    \cup Texts(TaskFragments, MaxFragments)
    \cup Texts(FollowUpFragments, MaxFragments)

AnalyzeRequests ==
    {[mode |-> "analyze", content |-> c, threadHistory |-> undefined, persona |-> undefined] :
        c \in AnalyzeContents}

KeyPointFragments == { <<"S","h","i","p"," ","b","y"," ","F","r","i","d","a","y">>, <<" ","-"," ">> }

ComposeRequests ==
    {[mode |-> "compose", audience |-> a, objective |-> o, tone |-> t, keyPoints |-> k,
      callToAction |-> c, signature |-> s] :
        a \in { <<>>, <<" ","A","l","e","x"," ">> },
        o \in { <<>>, <<"s","h","a","r","e"," ","a"," ","q","u","i","c","k"," ","p","r","o","d","u","c","t"," ","u","p","d","a","t","e">> },
        t \in Tones,
        k \in Lists(KeyPointFragments, MaxKeyPoints),
        c \in { undefined, <<"r","e","p","l","y"," ","b","y"," ","F","r","i","d","a","y">> },
        s \in { undefined, <<>>, <<" "," ">>, <<"S","a","m">>, <<"M","o","r","e"," ","s","o","o","n",".",".",".">> }}

\* compose requests that vary the objective
ObjectiveRequests ==
    {[mode |-> "compose", audience |-> <<>>, objective |-> o, tone |-> t,
      keyPoints |-> << <<"S","h","i","p"," ","b","y"," ","F","r","i","d","a","y">> >>, callToAction |-> undefined,
      signature |-> undefined] :
        o \in { <<" "," ">>, <<"F","e","e","d","b","a","c","k"," ","o","n"," ","t","h","e"," ","U","P","D","A","T","E">>, <<"i","n","t","r","o"," ","m","e","e","t","i","n","g">>, <<"m","e","e","t","i","n","g"," ","f","e","e","d","b","a","c","k">>,
                <<"c","u","s","t","o","m","e","r"," ","f","e","e","d","b","a","c","k"," ">>, <<"p","l","a","n"," ","t","h","e"," ","L","a","u","n","c","h">>, <<"i","n","t","r","o","d","u","c","e"," ","S","a","m">>,
                <<"4","2"," ","t","h","i","n","g","s">> },
        t \in Tones}

RichKeyPointFragments ==
    { <<"S","h","i","p"," ","b","y"," ","F","r","i","d","a","y">>, <<" ","-"," ">>, <<" "," ">>, <<"-","n","o","t","i","f","y"," ","f","i","n","a","n","c","e"," ">>, <<"-"," ","-"," ","x">>, <<>> }

\* compose requests that vary the key points
KeyPointRequests ==
    {[mode |-> "compose", audience |-> <<>>, objective |-> <<>>, tone |-> t,
      keyPoints |-> k, callToAction |-> undefined, signature |-> undefined] :
        t \in Tones, k \in Lists(RichKeyPointFragments, MaxKeyPoints)}

ThreadHistories == { undefined, <<>>, <<"a"," ","b">>, <<" ","K","i","c","k","o","f","f"," "," ","c","a","l","l"," ","M","a","y"," ","1","5"," ">> }

ThreadFragments == { <<"T","h","a","n","k","s","!"," ">>, <<"P","l","e","a","s","e"," ","r","e","p","l","y"," ","b","y"," ","5","/","1","2",".","\n">>, <<".">> }

\* analyze requests that vary the thread history and the persona
ThreadRequests ==
    {[mode |-> "analyze", content |-> c, threadHistory |-> h, persona |-> p] :
        c \in Texts(ThreadFragments, MaxFragments),
        h \in ThreadHistories,
        p \in { undefined, <<"A","l","e","x">> }}

SummaryFragments ==
    { <<"O","n","e","."," ","T","w","o","?"," ">>, <<"T","h","r","e","e","!","\n","\n">>, <<"f","o","u","r"," ">>, <<" ">>, <<"\n">>, <<"e",".","g","."," ","x">> }

\* the arguments of direct calls of summarize
SummarizeCalls ==
    {[content |-> c, threadHistory |-> h] :
        c \in Texts(SummaryFragments, MaxFragments), h \in ThreadHistories}

\* payloads whose mode is neither of the two
OtherRequests ==
    {[mode |-> m, content |-> c] :
        m \in {"", "summarize", "ANALYZE", "Compose", "analyse"},
        c \in {undefined, <<"h","e","l","l","o">>}}

Requests ==
    AnalyzeRequests \cup ComposeRequests \cup ObjectiveRequests \cup KeyPointRequests
    \cup OtherRequests

ReplayFragments ==
    { <<"P","l","e","a","s","e"," ","r","e","p","l","y"," ","b","y"," ","M","a","y"," ","1","2"," ","f","o","r"," ","J","o","r","d","a","n","."," ">>, <<"-"," ">>, <<"\n">>, <<"T","h","a","n","k","s","!"," ">>, <<"u","r","g","e","n","t","?"," ">> }

ReplayRequests ==
    {[mode |-> "analyze", content |-> c, threadHistory |-> h, persona |-> p] :
        c \in Texts(ReplayFragments, MaxFragments),
        h \in { undefined, <<"K","i","c","k","o","f","f"," ","c","a","l","l"," ","M","a","y"," ","1","5">> },
        p \in { undefined, <<" ">>, <<"A","l","e","x">> }}

SessionRequests ==
    { [mode |-> "analyze", content |-> <<"-"," ","P","l","e","a","s","e"," ","s","h","i","p"," ","b","y"," ","5","/","1","2"," ","f","o","r"," ","J","o","r","d","a","n">>,
       threadHistory |-> undefined, persona |-> <<"A","l","e","x">>],
      [mode |-> "analyze", content |-> <<"T","h","a","n","k","s",","," ","n","o"," ","i","s","s","u","e",".">>,
       threadHistory |-> <<"a"," ","b">>, persona |-> undefined],
      [mode |-> "analyze", content |-> <<" ">>,
       threadHistory |-> undefined, persona |-> undefined],
      [mode |-> "compose", audience |-> <<"A","l","e","x">>, objective |-> <<"i","n","t","r","o">>,
       tone |-> "friendly", keyPoints |-> << <<"S","h","i","p"," ","b","y"," ","F","r","i","d","a","y">> >>,
       callToAction |-> undefined, signature |-> undefined],
      [mode |-> "compose", audience |-> <<>>, objective |-> <<>>,
       tone |-> "assertive", keyPoints |-> <<>>,
       callToAction |-> <<"r","e","p","l","y">>, signature |-> <<"S","a","m">>],
      [mode |-> "summarize", content |-> <<"h","e","l","l","o">>] }

----------------------------------------------------------------------------
(* The handler as a state machine.                                          *)

NoResponse == Response(0, [pending |-> TRUE])

\* the component is not part of the run
NotMounted == [mounted |-> FALSE]

\* a variant of Deliver for a handler whose tag set lives at module level, so that the
\* tags of earlier analyses stay in it
DeliverSharedTags(result) ==
    LET earlier == {i \in 1..Len(served) :
                        served[i][1].mode = "analyze" /\ served[i][2].status = 200}
        kept == IF earlier = {} THEN <<>>
                ELSE served[CHOOSE i \in earlier : \A j \in earlier : j <= i][2].body.tags
        answer == IF request.mode = "analyze" /\ result.response.status = 200
                  THEN [result.response EXCEPT !.body.tags =
                            kept \o SelectSeq(@, LAMBDA tag :
                                        \A k \in 1..Len(kept) : kept[k] # tag)]
                  ELSE result.response
    IN  /\ response' = answer
        /\ invoked' = result.calls
        /\ served' = Append(served, <<request, answer>>)

\* the Response reaches the client
Deliver(result) ==
    /\ response' = result.response
    /\ invoked' = result.calls
    /\ served' = Append(served, <<request, result.response>>)

\* the handler runs on the request in flight and returns its Response
Post ==
    /\ pc = "received"
    /\ Deliver(POST(request))
    /\ pc' = "responded"
    /\ UNCHANGED <<request, round, agent>>

\* the client feeds the reply drafted for it back in as the content of a new request
Resubmit ==
    /\ pc = "responded"
    /\ request.mode = "analyze"
    /\ response.status = 200
    /\ round < MaxRounds
    /\ request' = [request EXCEPT !.content = response.body.recommendedReply.body]
    /\ response' = NoResponse
    /\ invoked' = {}
    /\ pc' = "received"
    /\ round' = round + 1
    /\ UNCHANGED <<served, agent>>

\* the client sends its next request, one it has sent before or another
Send ==
    /\ pc = "responded"
    /\ Len(served) < MaxSession
    /\ \E r \in SessionRequests : request' = r
    /\ response' = NoResponse
    /\ invoked' = {}
    /\ pc' = "received"
    /\ UNCHANGED <<served, round, agent>>

Start(requests) ==
    /\ request \in requests
    /\ response = NoResponse
    /\ pc = "received"
    /\ invoked = {}
    /\ served = <<>>
    /\ round = 0
    /\ agent = NotMounted

\* one request of any kind, handled once
Init == Start(Requests)

Next == Post

Spec == Init /\ [][Next]_vars

\* an analyze request whose drafted reply is analyzed again
InitReplay == Start(ReplayRequests)

NextReplay == Post \/ Resubmit

SpecReplay == InitReplay /\ [][NextReplay]_vars

\* a client session: any sequence of requests, repeats included
InitSession == Start(SessionRequests)

NextSession == Post \/ Send

SpecSession == InitSession /\ [][NextSession]_vars

\* how many variants of a request, thread histories apart, are sent
MaxVariants == 2

\* the client sends the request again, changed in its thread history only
Rethread ==
    /\ pc = "responded"
    /\ Len(served) < MaxVariants
    /\ \E h \in ThreadHistories \ {request.threadHistory} :
           request' = [request EXCEPT !.threadHistory = h]
    /\ response' = NoResponse
    /\ invoked' = {}
    /\ pc' = "received"
    /\ UNCHANGED <<served, round, agent>>

\* an analyze request answered, then sent again with other thread histories
InitThread == Start(ThreadRequests)

NextThread == Post \/ Rethread

SpecThread == InitThread /\ [][NextThread]_vars

\* summarize called on its own: request holds the arguments, response the value returned
Summarize ==
    /\ pc = "called"
    /\ response' = summarize(request.content, request.threadHistory)
    /\ invoked' = {"summarize"}
    /\ pc' = "returned"
    /\ UNCHANGED <<request, served, round, agent>>

InitSummarize ==
    /\ request \in SummarizeCalls
    /\ response = NoResponse
    /\ pc = "called"
    /\ invoked = {}
    /\ served = <<>>
    /\ round = 0
    /\ agent = NotMounted

NextSummarize == Summarize

SpecSummarize == InitSummarize /\ [][NextSummarize]_vars

----------------------------------------------------------------------------
(* The EmailAgent component: its state, its event handlers and its fetches. *)

\* null, in a form that can be compared with the payloads and messages held in state
null == [null |-> TRUE]

\* an error message held in state
Message(text) == [message |-> text]

demoEmail ==
    <<"H","e","y"," ","t","e","a","m",",","\n","\n","T","h","a","n","k","s"," ","f","o","r",
      " ","t","h","e"," ","s","p","r","i","n","t"," ","u","p","d","a","t","e","s","."," ",
      "W","e","'","r","e"," ","c","l","o","s","e",","," ","b","u","t"," ","t","h","e","r",
      "e"," ","a","r","e"," ","a"," ","f","e","w"," ","i","t","e","m","s"," ","w","e"," ",
      "n","e","e","d"," ","t","o"," ","c","l","o","s","e"," ","b","e","f","o","r","e"," ",
      "l","a","u","n","c","h",":","\n","\n","-"," ","U","p","d","a","t","e"," ","o","n","b",
      "o","a","r","d","i","n","g"," ","d","o","c","s"," ","s","o"," ","c","u","s","t","o",
      "m","e","r","s"," ","u","n","d","e","r","s","t","a","n","d"," ","t","h","e"," ","n",
      "e","w"," ","a","n","a","l","y","t","i","c","s"," ","b","e","t","a"," ","(","p","l",
      "e","a","s","e"," ","f","i","n","i","s","h"," ","b","y"," ","T","h","u","r","s","d",
      "a","y",")",".","\n","-"," ","C","o","o","r","d","i","n","a","t","e"," ","w","i","t",
      "h"," ","J","o","r","d","a","n"," ","f","o","r"," ","t","h","e"," ","r","e","l","e",
      "a","s","e"," ","c","h","e","c","k","l","i","s","t",".","\n","-"," ","C","o","u","l",
      "d"," ","y","o","u"," ","a","l","s","o"," ","c","o","n","f","i","r","m"," ","w","i",
      "t","h"," ","f","i","n","a","n","c","e"," ","t","h","a","t"," ","t","h","e"," ","p",
      "r","o","m","o"," ","c","o","d","e","s"," ","w","i","l","l"," ","s","t","a","c","k",
      " ","b","y"," ","5","/","1","2","?","\n","\n","T","h","i","s"," ","i","s"," ","p","r",
      "e","t","t","y"," ","u","r","g","e","n","t"," ","b","e","c","a","u","s","e"," ","t",
      "h","e"," ","a","n","n","o","u","n","c","e","m","e","n","t"," ","i","s"," ","q","u",
      "e","u","e","d"," ","u","p"," ","f","o","r"," ","F","r","i","d","a","y"," ","m","o",
      "r","n","i","n","g","."," ","L","e","t"," ","m","e"," ","k","n","o","w"," ","o","n",
      "c","e"," ","w","e","'","r","e"," ","s","q","u","a","r","e","d"," ","a","w","a","y",
      ".","\n","\n","R","e","a","l","l","y"," ","a","p","p","r","e","c","i","a","t","e"," ",
      "t","h","e"," ","h","a","r","d"," ","w","o","r","k"," ","h","e","r","e",".","\n","\n",
      "B","e","s","t",",","\n","A","l","e","x">>

demoHistory ==
    <<"T","h","r","e","a","d"," ","s","u","m","m","a","r","y",":","\n","-"," ","K","i","c",
      "k","o","f","f"," ","c","a","l","l"," ","s","c","h","e","d","u","l","e","d"," ","f",
      "o","r"," ","M","a","y"," ","1","5","\n","-"," ","J","o","r","d","a","n"," ","o","w",
      "n","s"," ","r","e","l","e","a","s","e"," ","c","o","m","m","u","n","i","c","a","t",
      "i","o","n","\n","-"," ","F","i","n","a","n","c","e"," ","e","x","p","e","c","t","s",
      " ","n","e","w"," ","p","r","o","m","o"," ","c","o","d","e","s"," ","b","y"," ","M",
      "a","y"," ","1","2">>

\* the values useState gives the compose form
initialAudience == <<"A","l","e","x">>
initialObjective == <<"S","h","a","r","e"," ","n","e","x","t"," ","s","t","e","p","s"," ","a","f","t","e","r"," ","r","e","c","e","i","v","i","n","g"," ","a","n"," ","u","p","d","a","t","e">>
initialKeyPoints ==
    << <<"C","o","n","f","i","r","m"," ","o","w","n","e","r","s","h","i","p"," ","o","f"," ","o","n","b","o","a","r","d","i","n","g"," ","d","o","c","s">>, <<"A","l","i","g","n"," ","o","n"," ","r","e","l","e","a","s","e"," ","c","h","e","c","k","l","i","s","t">>,
       <<"V","e","r","i","f","y"," ","p","r","o","m","o"," ","c","o","d","e","s"," ","w","i","t","h"," ","f","i","n","a","n","c","e">> >>
initialCallToAction == <<"C","o","n","f","i","r","m"," ","t","i","m","e","l","i","n","e","s"," ","b","y"," ","T","h","u","r","s","d","a","y"," ","E","O","D">>
initialSignature == <<"J","o","r","d","a","n","\n","E","n","g","i","n","e","e","r","i","n","g"," ","L","e","a","d">>

\* the component after its first render; of the compose form only the objective is edited
\* here, the other fields keep the values useState gives them. analyzeFetches and
\* composeFetches are the fetches that have not settled yet, and
\* resetSinceAnalyze records that resetDemo ran and handleAnalyze was not invoked since.
Mounted ==
    [mounted |-> TRUE,
     incomingEmail |-> <<>>, threadHistory |-> <<>>, persona |-> <<>>,
     analysis |-> null, analysisError |-> null, analyzing |-> FALSE,
     analyzeFetches |-> <<>>, resetSinceAnalyze |-> FALSE,
     objective |-> initialObjective,
     composeResult |-> null, composeError |-> null, composing |-> FALSE,
     composeFetches |-> <<>>]

\* a fetch of /api/agent on its way: the body sent and the Response the route gives for
\* it, which depends on nothing but that body
fetch(payload) == [body |-> payload, route |-> POST(payload).response]

\* seq without its i-th element
without(seq, i) == SubSeq(seq, 1, i - 1) \o SubSeq(seq, i + 1, Len(seq))

\* what the user types into the email field and into the objective field
EmailInputs == { <<>>, <<" "," ">>, <<"T","h","a","n","k","s",","," ","p","l","e","a","s","e"," ","r","e","p","l","y"," ","b","y"," ","5","/","1","2",".">> }
ObjectiveInputs == { <<>>, <<" ">>, initialObjective }

\* how a fetch ends: with the route's Response, with a non-OK response that carries no
\* error message, or with the promise rejected
Outcomes == {"response", "failed", "thrown"}

\* the route and the other variables of the server side are not observed here
ServerIdle ==
    /\ request = null
    /\ response = NoResponse
    /\ pc = "idle"
    /\ invoked = {}
    /\ served = <<>>
    /\ round = 0

\* onChange of the email field
setIncomingEmail ==
    /\ \E value \in EmailInputs \ {agent.incomingEmail} :
           agent' = [agent EXCEPT !.incomingEmail = value]
    /\ UNCHANGED <<request, response, pc, invoked, served, round>>

\* Load demo
resetDemo ==
    /\ agent' = [agent EXCEPT !.incomingEmail = demoEmail,
                              !.threadHistory = demoHistory,
                              !.persona = <<"A","l","e","x">>,
                              !.analysis = null,
                              !.analysisError = null,
                              !.resetSinceAnalyze = TRUE]
    /\ UNCHANGED <<request, response, pc, invoked, served, round>>

\* a click on Analyze, up to the fetch; the button is disabled while analyzing
handleAnalyze ==
    /\ ~agent.analyzing
    /\ agent' =
           IF trim(agent.incomingEmail) = <<>>
           THEN [agent EXCEPT !.analysisError =
                     Message("Drop in the email you want the agent to triage first."),
                              !.resetSinceAnalyze = FALSE]
           ELSE [agent EXCEPT !.analyzing = TRUE,
                              !.analysisError = null,
                              !.analysis = null,
                              !.resetSinceAnalyze = FALSE,
                              !.analyzeFetches = Append(@, fetch(
                                  [mode |-> "analyze", content |-> agent.incomingEmail,
                                   threadHistory |-> agent.threadHistory,
                                   persona |-> agent.persona]))]
    /\ UNCHANGED <<request, response, pc, invoked, served, round>>

\* the message of the Error thrown for a non-OK response: payload?.error ?? fallback
errorOf(body, fallback) == IF "error" \in DOMAIN body THEN body.error ELSE fallback

\* handleAnalyze with setAnalyzing(false) as the last statement of the try block
\* instead of a finally block
analyzeSettledNoFinally(i, outcome, route) ==
    [agent EXCEPT
        !.analysis = IF outcome = "response" /\ route.status = 200 THEN route.body ELSE @,
        !.analysisError =
            IF outcome = "thrown" THEN Message("Failed to fetch")
            ELSE IF outcome = "failed" THEN Message("Unable to analyze this email.")
            ELSE IF route.status # 200
                THEN Message(errorOf(route.body, "Unable to analyze this email."))
            ELSE @,
        !.analyzing = IF outcome = "response" /\ route.status = 200 THEN FALSE ELSE @,
        !.analyzeFetches = without(@, i)]

\* the rest of handleAnalyze, from the settled fetch to the finally block
analyzeSettledWith(i, outcome, route) ==
    [agent EXCEPT
        !.analysis = IF outcome = "response" /\ route.status = 200 THEN route.body ELSE @,
        !.analysisError =
            IF outcome = "thrown" THEN Message("Failed to fetch")
            ELSE IF outcome = "failed" THEN Message("Unable to analyze this email.")
            ELSE IF route.status # 200
                THEN Message(errorOf(route.body, "Unable to analyze this email."))
            ELSE @,
        !.analyzing = FALSE,
        !.analyzeFetches = without(@, i)]

\* one of the fetches of handleAnalyze settles
analyzeSettled ==
    /\ \E i \in 1..Len(agent.analyzeFetches) : \E outcome \in Outcomes :
           agent' = analyzeSettledWith(i, outcome, agent.analyzeFetches[i].route)
    /\ UNCHANGED <<request, response, pc, invoked, served, round>>

\* onChange of the objective field
setObjective ==
    /\ \E value \in ObjectiveInputs \ {agent.objective} :
           agent' = [agent EXCEPT !.objective = value]
    /\ UNCHANGED <<request, response, pc, invoked, served, round>>

\* a click on Draft, up to the fetch; the button is disabled while composing
handleCompose ==
    /\ ~agent.composing
    /\ agent' =
           IF trim(agent.objective) = <<>>
           THEN [agent EXCEPT !.composeResult = null,
                              !.composeError =
                                  Message("Give the agent a clear objective to aim for.")]
           ELSE [agent EXCEPT !.composeError = null,
                              !.composeResult = null,
                              !.composing = TRUE,
                              !.composeFetches = Append(@, fetch(
                                  [mode |-> "compose", audience |-> initialAudience,
                                   objective |-> agent.objective, tone |-> "professional",
                                   keyPoints |-> initialKeyPoints,
                                   callToAction |-> initialCallToAction,
                                   signature |-> initialSignature]))]
    /\ UNCHANGED <<request, response, pc, invoked, served, round>>

\* the rest of handleCompose, from the settled fetch to the finally block
composeSettledWith(i, outcome, route) ==
    [agent EXCEPT
        !.composeResult =
            IF outcome = "response" /\ route.status = 200 THEN route.body ELSE @,
        !.composeError =
            IF outcome = "thrown" THEN Message("Failed to fetch")
            ELSE IF outcome = "failed" THEN Message("Unable to generate the draft.")
            ELSE IF route.status # 200
                THEN Message(errorOf(route.body, "Unable to generate the draft."))
            ELSE @,
        !.composing = FALSE,
        !.composeFetches = without(@, i)]

\* one of the fetches of handleCompose settles
composeSettled ==
    /\ \E i \in 1..Len(agent.composeFetches) : \E outcome \in Outcomes :
           agent' = composeSettledWith(i, outcome, agent.composeFetches[i].route)
    /\ UNCHANGED <<request, response, pc, invoked, served, round>>

InitAgent == agent = Mounted /\ ServerIdle

NextAgent ==
    \/ setIncomingEmail
    \/ resetDemo
    \/ handleAnalyze
    \/ analyzeSettled
    \/ setObjective
    \/ handleCompose
    \/ composeSettled

SpecAgent == InitAgent /\ [][NextAgent]_vars

\* the promise of every fetch settles, fulfilled or rejected, and the continuation of
\* the handler that awaits it then runs
SpecAgentLive ==
    InitAgent /\ [][NextAgent]_vars /\ WF_vars(analyzeSettled) /\ WF_vars(composeSettled)

----------------------------------------------------------------------------
(* Properties of the handler.                                               *)

Responded == pc = "responded"

\* an analyze request was accepted and its analysis returned
Accepted == Responded /\ request.mode = "analyze" /\ response.status = 200

\* a compose request was answered
Composed == Responded /\ request.mode = "compose"

\* absent, empty or whitespace only
isBlank(content) == content = undefined \/ \A i \in 1..Len(content) : content[i] \in WS

\* the content without its leading and trailing whitespace
core(content) ==
    LET inner == {i \in 1..Len(content) : content[i] \notin WS}
    IN  IF inner = {} THEN <<>>
        ELSE SubSeq(content, Min(inner), CHOOSE i \in inner : \A j \in inner : j <= i)

occursAt(word, text, i) == \A j \in 1..Len(word) : charAt(text, i + j - 1) = word[j]

occurs(word, text) == \E i \in 1..Len(text) : occursAt(word, text, i)

\* how many of the words occur in text, each counted once
countPresent(words, text) == Cardinality({k \in 1..Len(words) : occurs(words[k], text)})

containsAny(words, text) == \E k \in 1..Len(words) : occurs(words[k], text)

isWordChar(text, i) == charAt(text, i) \in WordChars

\* a token of a digits, a slash and b digits starts at i, no word character around it
dateTokenAt(text, i, a, b) ==
    /\ \A k \in i..(i + a - 1) : charAt(text, k) \in Digits
    /\ charAt(text, i + a) = "/"
    /\ \A k \in (i + a + 1)..(i + a + b) : charAt(text, k) \in Digits
    /\ ~isWordChar(text, i - 1)
    /\ ~isWordChar(text, i + a + b + 1)

containsDateToken(text) ==
    \E i \in 1..Len(text) : \E a \in 1..2 : \E b \in 1..2 : dateTokenAt(text, i, a, b)

\* the phrase occurs in text with no word character right before or right after it
occursAsWord(phrase, text) ==
    \E i \in 1..Len(text) :
        /\ occursAt(phrase, text, i)
        /\ ~isWordChar(text, i - 1)
        /\ ~isWordChar(text, i + Len(phrase))

containsAnyAsWord(phrases, text) == \E k \in 1..Len(phrases) : occursAsWord(phrases[k], text)

endsWithEllipsis(s) == Len(s) >= 3 /\ SubSeq(s, Len(s) - 2, Len(s)) = <<".", ".", ".">>

hasDuplicates(seq) == \E i, j \in 1..Len(seq) : i < j /\ seq[i] = seq[j]

ValidationError == Response(400, [error |-> "Email content is required."])

UnsupportedError == Response(400, [error |-> "Unsupported mode."])

AnalyzeShape ==
    {"summary", "sentiment", "priority", "tags", "subjectSuggestion", "tasks",
     "followUpRecommendation", "recommendedReply"}

ComposeShape == {"subject", "preview", "body", "cadenceTip"}

\* C1: an analyze request with absent, empty or whitespace-only content gets the
\* validation error (400, an object with only the error message) and analyzeEmail is
\* not invoked; one with non-blank content gets status 200 and a payload, never the error.
C1_BlankContentRejected ==
    (Responded /\ request.mode = "analyze") =>
        IF isBlank(request.content)
        THEN response = ValidationError /\ "analyzeEmail" \notin invoked
        ELSE /\ response.status = 200
             /\ "error" \notin DOMAIN response.body
             /\ invoked = {"analyzeEmail"}

C1_Witness ==
    /\ Responded /\ request.mode = "analyze"
    /\ request.content # undefined /\ Len(request.content) >= 2 /\ isBlank(request.content)
    /\ response.status = 400

\* C2: detectSentiment counts each positive and each negative word once if it occurs as
\* a substring of the lower-cased content, however often, and returns neutral on equal
\* counts, positive when the positive count is larger, negative otherwise.
C2_SentimentByDistinctHits ==
    Accepted =>
        LET low == toLowerCase(core(request.content))
            p == countPresent(POSITIVE_WORDS, low)
            n == countPresent(NEGATIVE_WORDS, low)
        IN  response.body.sentiment =
                IF p = n THEN "neutral" ELSE IF p > n THEN "positive" ELSE "negative"

\* a positive word occurs twice, one negative word once, and the result is neutral
C2_Witness ==
    /\ Accepted
    /\ LET low == toLowerCase(core(request.content))
       IN  /\ countPresent(POSITIVE_WORDS, low) = 1
           /\ countPresent(NEGATIVE_WORDS, low) = 1
           /\ \E k \in 1..Len(POSITIVE_WORDS) :
                  Cardinality({i \in 1..Len(low) : occursAt(POSITIVE_WORDS[k], low, i)}) >= 2
    /\ response.body.sentiment = "neutral"

\* C3 as stated: high when an urgency word occurs; otherwise medium when the content
\* contains a date token or contains one of the phrases next week / soon / follow up;
\* otherwise low.
C3_PhraseContained ==
    Accepted =>
        LET low == toLowerCase(core(request.content))
        IN  response.body.priority =
                IF containsAny(URGENCY_WORDS, low) THEN "high"
                ELSE IF containsDateToken(low) \/ containsAny(TIMING_PHRASES, low)
                    THEN "medium"
                ELSE "low"

\* C3, amended: high when an urgency word occurs as a substring, whatever else the
\* content holds; otherwise medium when the content contains a date token or one of the
\* phrases as whole words (no word character right before or after); otherwise low.
C3_PriorityPrecedence ==
    Accepted =>
        LET low == toLowerCase(core(request.content))
        IN  response.body.priority =
                IF containsAny(URGENCY_WORDS, low) THEN "high"
                ELSE IF containsDateToken(low) \/ containsAnyAsWord(TIMING_PHRASES, low)
                    THEN "medium"
                ELSE "low"

\* an urgency word next to a date token: high
C3_Witness ==
    /\ Accepted
    /\ LET low == toLowerCase(core(request.content))
       IN  containsAny(URGENCY_WORDS, low) /\ containsDateToken(low)
    /\ response.body.priority = "high"

\* the k-th smallest element of a set of numbers
nth(S, k) == CHOOSE x \in S : Cardinality({y \in S : y < x}) = k - 1

\* the lines of content that qualify and whose description is not empty
retainedLines(lines) ==
    {k \in 1..Len(lines) : isTaskLine(lines[k]) /\ trim(stripBullet(lines[k])) # <<>>}

\* C4: no task has an empty description, and the tasks are the retained qualifying
\* lines in source order, one task per line.
C4_TasksInLineOrder ==
    Accepted =>
        LET lines == splitLines(core(request.content))
            kept == retainedLines(lines)
            tasks == response.body.tasks
        IN  /\ \A i \in 1..Len(tasks) : tasks[i].description # <<>>
            /\ Len(tasks) = Cardinality(kept)
            /\ \A i \in 1..Len(tasks) : tasks[i] = taskOf(lines[nth(kept, i)])

\* a cue line before a bulleted line, with a qualifying line dropped for its empty
\* description
C4_Witness ==
    /\ Accepted
    /\ LET lines == splitLines(core(request.content))
       IN  /\ \E j, k \in retainedLines(lines) :
                  j < k /\ isCueOnlyLine(lines[j]) /\ isBulletLine(lines[k])
           /\ \E k \in 1..Len(lines) : isTaskLine(lines[k]) /\ k \notin retainedLines(lines)
    /\ Len(response.body.tasks) = 2

\* the tags the result's own priority, sentiment and tasks call for, in insertion order
expectedTags(analysis) ==
    << IF analysis.priority = "high" THEN "Hot"
       ELSE IF analysis.priority = "medium" THEN "Follow-up" ELSE "Backlog",
       IF analysis.sentiment = "positive" THEN "Relationship"
       ELSE IF analysis.sentiment = "negative" THEN "Risk" ELSE "Neutral" >>
    \o (IF analysis.tasks # <<>> THEN <<"Action items">> ELSE <<>>)
    \o (IF \E i \in 1..Len(analysis.tasks) : analysis.tasks[i].owner # undefined
        THEN <<"Delegation">> ELSE <<>>)

\* C5: tags holds no duplicate, lists priority tag, sentiment tag, "Action items",
\* "Delegation" in that order, has "Action items" iff tasks is non-empty and
\* "Delegation" iff some task has an owner.
C5_TagsOrderedSet ==
    Accepted =>
        /\ ~hasDuplicates(response.body.tags)
        /\ response.body.tags = expectedTags(response.body)

\* tasks without an owner: "Action items" and no "Delegation"
C5_Witness ==
    /\ Accepted
    /\ Len(response.body.tasks) >= 2
    /\ Len(response.body.tags) = 3
    /\ response.body.tags[3] = "Action items"

\* C6 as stated: the preview has at most 143 characters and ends with "..." iff the
\* collapsed, trimmed body is longer than 140 characters.
C6_EllipsisIffTruncated ==
    Composed =>
        /\ Len(response.body.preview) <= PREVIEW_LENGTH + 3
        /\ endsWithEllipsis(response.body.preview)
               <=> Len(trim(collapseWS(response.body.body))) > PREVIEW_LENGTH

\* C6, amended: the preview has at most 143 characters; when the collapsed, trimmed body
\* is longer than 140 characters the preview is its first 140 characters followed by
\* "...", and otherwise the preview is the collapsed body, unchanged.
C6_PreviewTruncation ==
    Composed =>
        LET condensed == trim(collapseWS(response.body.body))
            preview == response.body.preview
        IN  /\ Len(preview) <= PREVIEW_LENGTH + 3
            /\ IF Len(condensed) > PREVIEW_LENGTH
               THEN preview = SubSeq(condensed, 1, PREVIEW_LENGTH) \o <<".", ".", ".">>
               ELSE preview = condensed

\* a short body that itself ends with "...": the preview is the body, not a truncation
C6_Witness ==
    /\ Composed
    /\ Len(trim(collapseWS(response.body.body))) <= PREVIEW_LENGTH
    /\ endsWithEllipsis(response.body.preview)

ExampleServed == Accepted /\ request.content = ExampleContent

\* C7 as stated: the example yields sentiment neutral (one positive, one negative hit),
\* priority high, exactly one task with description "Please update the docs by
\* Thursday." and due "Thursday", and tags that include "Hot" and "Action items".
C7_ExampleAsDocumented ==
    ExampleServed =>
        /\ response.body.sentiment = "neutral"
        /\ countPresent(POSITIVE_WORDS, toLowerCase(ExampleContent)) = 1
        /\ countPresent(NEGATIVE_WORDS, toLowerCase(ExampleContent)) = 1
        /\ response.body.priority = "high"
        /\ Len(response.body.tasks) = 1
        /\ response.body.tasks[1].description = <<"P","l","e","a","s","e"," ","u","p","d","a","t","e"," ","t","h","e"," ","d","o","c","s"," ","b","y"," ","T","h","u","r","s","d","a","y",".">>
        /\ response.body.tasks[1].due = <<"T","h","u","r","s","d","a","y">>
        /\ \E i \in 1..Len(response.body.tags) : response.body.tags[i] = "Hot"
        /\ \E i \in 1..Len(response.body.tags) : response.body.tags[i] = "Action items"

\* C7, amended: the example yields sentiment neutral (one positive, one negative hit),
\* priority high, exactly one task whose description is the whole line and which has no
\* due, and tags that include "Hot" and "Action items".
C7_ExampleAsComputed ==
    ExampleServed =>
        /\ response.body.sentiment = "neutral"
        /\ countPresent(POSITIVE_WORDS, toLowerCase(ExampleContent)) = 1
        /\ countPresent(NEGATIVE_WORDS, toLowerCase(ExampleContent)) = 1
        /\ response.body.priority = "high"
        /\ Len(response.body.tasks) = 1
        /\ response.body.tasks[1].description = ExampleContent
        /\ response.body.tasks[1].due = undefined
        /\ \E i \in 1..Len(response.body.tags) : response.body.tags[i] = "Hot"
        /\ \E i \in 1..Len(response.body.tags) : response.body.tags[i] = "Action items"

C7_Witness == ExampleServed /\ Len(response.body.tasks) = 1

\* a result with every field in its range
structurallyValid(analysis) ==
    /\ DOMAIN analysis = AnalyzeShape
    /\ analysis.sentiment \in {"positive", "neutral", "negative"}
    /\ analysis.priority \in {"low", "medium", "high"}
    /\ analysis.summary # <<>>
    /\ \A i \in 1..Len(analysis.tasks) : analysis.tasks[i].description # <<>>
    /\ analysis.recommendedReply.subject # <<>>
    /\ analysis.recommendedReply.body # <<>>

\* C8: the reply body of every accepted analysis is non-blank, and analyzing it as new
\* content is never rejected and yields a structurally valid result.
C8_ReplyBodyReanalyzable ==
    /\ Accepted => ~isBlank(response.body.recommendedReply.body)
    /\ (Responded /\ round >= 1) =>
           /\ response.status = 200
           /\ response # ValidationError
           /\ structurallyValid(response.body)

\* the reply to a content with a bare bullet line was analyzed again
C8_Witness ==
    /\ Accepted /\ round = 1
    /\ \E i \in 1..Len(splitLines(request.content)) : splitLines(request.content)[i] = <<"-">>

\* C9: a request whose mode is neither "analyze" nor "compose" gets the "Unsupported
\* mode." error and runs no pipeline; every response is an error object (only an error
\* message) or a success payload of the requested mode's shape.
C9_ModeDispatch ==
    Responded =>
        /\ request.mode \notin {"analyze", "compose"} =>
               response = UnsupportedError /\ invoked = {}
        /\ \/ response.status = 400 /\ DOMAIN response.body = {"error"} /\ invoked = {}
           \/ /\ response.status = 200 /\ request.mode = "analyze"
              /\ DOMAIN response.body = AnalyzeShape
           \/ /\ response.status = 200 /\ request.mode = "compose"
              /\ DOMAIN response.body = ComposeShape

\* a payload with content and a mode that differs from "analyze" only in letter case
C9_Witness ==
    /\ Responded
    /\ request.mode = "ANALYZE" /\ request.content # undefined
    /\ response = UnsupportedError

C11_WaitWordContained ==
    Accepted =>
        response.body.followUpRecommendation =
            IF response.body.priority = "high"
                THEN "Follow up within 4 business hours and confirm ownership of each task."
            ELSE IF containsAny(WAITING_WORDS, toLowerCase(core(request.content)))
                THEN "Schedule a reminder in 2 days to check for updates."
            ELSE IF response.body.tasks # <<>>
                THEN "Log tasks in your system and share a progress update within 24 hours."
            ELSE "Archive for now, revisit over the weekend for any broader updates."

\* C11, amended: the same precedence, where the waiting words count only as whole words
\* (no letter, digit or underscore right before or after), in any letter case.
C11_FollowUpPrecedence ==
    Accepted =>
        response.body.followUpRecommendation =
            IF response.body.priority = "high"
                THEN "Follow up within 4 business hours and confirm ownership of each task."
            ELSE IF containsAnyAsWord(WAITING_WORDS, toLowerCase(core(request.content)))
                THEN "Schedule a reminder in 2 days to check for updates."
            ELSE IF response.body.tasks # <<>>
                THEN "Log tasks in your system and share a progress update within 24 hours."
            ELSE "Archive for now, revisit over the weekend for any broader updates."

\* a waiting word in a content with tasks and no urgency: the reminder wins over the tasks
C11_Witness ==
    /\ Accepted
    /\ response.body.priority # "high"
    /\ response.body.tasks # <<>>
    /\ containsAnyAsWord(WAITING_WORDS, toLowerCase(core(request.content)))
    /\ response.body.followUpRecommendation
           = "Schedule a reminder in 2 days to check for updates."

\* a bullet marker at the start of s: *, - or digits and a dot
startsWithMarker(s) ==
    \/ charAt(s, 1) \in {"*", "-"}
    \/ \E n \in 1..Len(s) : charAt(s, n + 1) = "." /\ \A k \in 1..n : s[k] \in Digits

\* s without its marker and without the whitespace around it
afterMarker(s) ==
    LET inner == core(s)
        n == IF charAt(inner, 1) \in {"*", "-"} THEN 1
             ELSE CHOOSE k \in 1..Len(inner) :
                      charAt(inner, k + 1) = "." /\ \A j \in 1..k : inner[j] \in Digits
    IN  core(SubSeq(inner, n + (IF charAt(inner, 1) \in {"*", "-"} THEN 1 ELSE 2), Len(inner)))

\* C12: the task of every retained line that starts with a bullet marker after trimming
\* has, as its description, the capitalized rest of the line: the marker and the
\* whitespace around it are removed, also when the line is indented.
C12_BulletMarkerStripped ==
    Accepted =>
        LET lines == splitLines(core(request.content))
            kept == retainedLines(lines)
            tasks == response.body.tasks
        IN  \A i \in 1..Len(tasks) :
                startsWithMarker(core(lines[nth(kept, i)])) =>
                    tasks[i].description = capitalize(afterMarker(lines[nth(kept, i)]))

\* an indented bulleted line whose task still begins with the marker
C12_Witness ==
    /\ Accepted
    /\ LET lines == splitLines(core(request.content))
           kept == retainedLines(lines)
       IN  \E i \in 1..Len(response.body.tasks) :
               /\ lines[nth(kept, i)][1] \in WS
               /\ startsWithMarker(core(lines[nth(kept, i)]))
               /\ response.body.tasks[i].description[1] = "-"

\* the lines of a text
linesOf(text) == splitLines(text)

startsWith(s, prefix) == Len(s) >= Len(prefix) /\ SubSeq(s, 1, Len(prefix)) = prefix

\* s with its first character in upper case and the rest as it is
firstUpper(s) == IF s = <<>> THEN s ELSE toUpperCase(<<s[1]>>) \o Tail(s)

\* C13: a compose request is never rejected; with an empty objective the subject is the
\* tone template's subject and the body has no "Objective:" line; otherwise the subject
\* follows the first keyword found in the order update, intro, meeting, feedback (any
\* letter case), else it is the objective with its first letter capitalized, and the
\* body has the "Objective:" line.
C13_SubjectFromObjective ==
    Composed =>
        LET objective == core(request.objective)
            low == toLowerCase(objective)
            body == linesOf(response.body.body)
        IN  /\ response.status = 200
            /\ DOMAIN response.body = ComposeShape
            /\ response.body.subject =
                   IF objective = <<>> THEN FOLLOW_UP_TEMPLATES[request.tone].subject
                   ELSE IF occurs(<<"u","p","d","a","t","e">>, low) THEN <<"Q","u","i","c","k"," ","p","r","o","j","e","c","t"," ","u","p","d","a","t","e">>
                   ELSE IF occurs(<<"i","n","t","r","o">>, low) THEN <<"I","n","t","r","o","d","u","c","t","i","o","n"," ","a","n","d"," ","n","e","x","t"," ","s","t","e","p","s">>
                   ELSE IF occurs(<<"m","e","e","t","i","n","g">>, low) THEN <<"P","r","o","p","o","s","e","d"," ","a","g","e","n","d","a"," ","f","o","r"," ","o","u","r"," ","m","e","e","t","i","n","g">>
                   ELSE IF occurs(<<"f","e","e","d","b","a","c","k">>, low)
                       THEN <<"F","e","e","d","b","a","c","k"," ","a","n","d"," ","p","r","o","p","o","s","e","d"," ","i","m","p","r","o","v","e","m","e","n","t","s">>
                   ELSE firstUpper(objective)
            /\ IF objective = <<>>
               THEN \A i \in 1..Len(body) : ~startsWith(body[i], <<"O","b","j","e","c","t","i","v","e",":">>)
               ELSE \E i \in 1..Len(body) :
                        body[i] = <<"O","b","j","e","c","t","i","v","e",":"," ">> \o firstUpper(objective)

\* an objective with "feedback" before "update": update wins
C13_Witness ==
    /\ Composed
    /\ occurs(<<"f","e","e","d","b","a","c","k">>, toLowerCase(request.objective))
    /\ occurs(<<"u","p","d","a","t","e">>, toLowerCase(request.objective))
    /\ response.body.subject = <<"Q","u","i","c","k"," ","p","r","o","j","e","c","t"," ","u","p","d","a","t","e">>

\* the key points that survive trimming and the filter
remaining(keyPoints) == {i \in 1..Len(keyPoints) : ~isBlank(keyPoints[i])}

\* C14: the cadence tip is the tone's base message, followed by the bolding sentence iff
\* more than two cleaned key points remain.
C14_CadenceTip ==
    Composed =>
        response.body.cadenceTip =
            (IF request.tone = "assertive"
                 THEN "Set a reminder to nudge the recipient within 1 business day."
             ELSE IF request.tone = "concise"
                 THEN "Share a short recap if you do not hear back within 2 days."
             ELSE "Send a friendly check-in if there's no response within 3 days.")
            \o (IF Cardinality(remaining(request.keyPoints)) > 2
                THEN " Consider bolding the key decisions to make scanning easier."
                ELSE "")

\* three key points of which exactly two remain: nothing is appended
C14_Witness ==
    /\ Composed
    /\ Len(request.keyPoints) = 3
    /\ Cardinality(remaining(request.keyPoints)) = 2
    /\ response.body.cadenceTip
           = "Send a friendly check-in if there's no response within 3 days."

\* the pieces of text that end with . ? or ! before whitespace, newline runs read as one
\* space, empty pieces left out
sentencesOf(text) == filterNonEmpty(splitSentences(collapseNewlines(text)))

threadNote(threadHistory) ==
    <<" ","T","h","r","e","a","d"," ","c","o","n","t","e","x","t"," ","c","o","n","s","i","d","e","r","e","d"," ","(">> \o toDecimal(Len(splitWS(threadHistory)))
    \o <<" ","w","o","r","d","s",")",".">>

\* C15: summarize returns the first three non-empty sentences joined by single spaces,
\* without any thread note, whenever there is a sentence; only when there is none it
\* returns "No summary available.", followed by the thread note iff a non-empty
\* threadHistory was supplied.
C15_NoteOnlyOnFallback ==
    pc = "returned" =>
        LET sentences == sentencesOf(request.content)
            supplied == request.threadHistory # undefined /\ request.threadHistory # <<>>
        IN  response =
                IF sentences # <<>>
                THEN join(SubSeq(sentences, 1, Min({3, Len(sentences)})), <<" ">>)
                ELSE IF supplied
                    THEN <<"N","o"," ","s","u","m","m","a","r","y"," ","a","v","a","i","l","a","b","l","e",".">> \o threadNote(request.threadHistory)
                ELSE <<"N","o"," ","s","u","m","m","a","r","y"," ","a","v","a","i","l","a","b","l","e",".">>

\* four sentences and a thread history: the first three, and no note
C15_Witness ==
    /\ pc = "returned"
    /\ Len(sentencesOf(request.content)) > 3
    /\ request.threadHistory # undefined /\ request.threadHistory # <<>>
    /\ response = <<"O","n","e","."," ","T","w","o","?"," ","T","h","r","e","e","!">>

contains(seq, x) == \E i \in 1..Len(seq) : seq[i] = x

\* C16: in every analysis result, priority is high iff tags contains "Hot", iff the
\* reply subject is the assertive "Action needed" (otherwise it is the professional
\* "Quick follow-up on your message"), iff followUpRecommendation is the "within 4
\* business hours" message, iff subjectSuggestion starts with "[Urgent]".
C16_PriorityFieldsAgree ==
    Accepted =>
        LET high == response.body.priority = "high"
        IN  /\ high <=> contains(response.body.tags, "Hot")
            /\ response.body.recommendedReply.subject =
                   IF high THEN <<"A","c","t","i","o","n"," ","n","e","e","d","e","d">> ELSE <<"Q","u","i","c","k"," ","f","o","l","l","o","w","-","u","p"," ","o","n"," ","y","o","u","r"," ","m","e","s","s","a","g","e">>
            /\ high <=> response.body.followUpRecommendation
                   = "Follow up within 4 business hours and confirm ownership of each task."
            /\ high <=> startsWith(response.body.subjectSuggestion, <<"[","U","r","g","e","n","t","]">>)

\* a medium-priority analysis with a task: the professional reply and a [Follow-up] subject
C16_Witness ==
    /\ Accepted
    /\ response.body.priority = "medium"
    /\ response.body.tasks # <<>>
    /\ response.body.recommendedReply.subject = <<"Q","u","i","c","k"," ","f","o","l","l","o","w","-","u","p"," ","o","n"," ","y","o","u","r"," ","m","e","s","s","a","g","e">>
    /\ ~startsWith(response.body.subjectSuggestion, <<"[","U","r","g","e","n","t","]">>)

\* the two requests differ in their thread history and in nothing else
sameButThread(a, b) ==
    /\ a.threadHistory # b.threadHistory
    /\ [a EXCEPT !.threadHistory = undefined] = [b EXCEPT !.threadHistory = undefined]

\* C17: two analyze requests that differ only in threadHistory get identical responses,
\* and no accepted response carries the fallback summary or the thread note.
C17_ThreadHistoryIgnored ==
    /\ \A i, j \in 1..Len(served) :
           sameButThread(served[i][1], served[j][1]) => served[i][2] = served[j][2]
    /\ \A i \in 1..Len(served) :
           served[i][2].status = 200 =>
               /\ served[i][2].body.summary # <<>>
               /\ ~occurs(<<"N","o"," ","s","u","m","m","a","r","y"," ","a","v","a","i","l","a","b","l","e",".">>, served[i][2].body.summary)
               /\ ~occurs(<<"T","h","r","e","a","d"," ","c","o","n","t","e","x","t"," ","c","o","n","s","i","d","e","r","e","d">>, served[i][2].body.summary)

\* an accepted request answered without, then with a thread history
C17_Witness ==
    \E i, j \in 1..Len(served) :
        /\ i < j
        /\ served[i][1].threadHistory = undefined
        /\ served[j][1].threadHistory = <<" ","K","i","c","k","o","f","f"," "," ","c","a","l","l"," ","M","a","y"," ","1","5"," ">>
        /\ served[j][1].persona # undefined
        /\ served[j][2].status = 200

\* the text of a key point: trimmed, without one leading dash and the whitespace after it
textOf(point) ==
    LET inner == core(point)
    IN  IF charAt(inner, 1) = "-" THEN core(Tail(inner)) ELSE inner

\* the key points that have text
withText(keyPoints) == {i \in 1..Len(keyPoints) : textOf(keyPoints[i]) # <<>>}

\* C18: every bullet line of the body carries text after its marker, the fallback line
\* stands in when no key point with text remains, and the bolding sentence of the
\* cadence tip is there iff more than two key points with text remain.
C18_KeyPointsHaveText ==
    Composed =>
        LET body == linesOf(response.body.body)
            points == withText(request.keyPoints)
        IN  /\ \A i \in 1..Len(body) :
                   startsWith(body[i], <<"BULLET"," ">>) => core(SubSeq(body[i], 3, Len(body[i]))) # <<>>
            /\ points = {} =>
                   contains(body, <<"BULLET"," ","K","e","y"," ","d","e","t","a","i","l","s"," ","a","r","e"," ","i","n","c","l","u","d","e","d"," ","i","n"," ","t","h","e"," ","a","t","t","a","c","h","m","e","n","t","s",".">>)
            /\ Cardinality(points) > 2
                   <=> occurs(<<"C","o","n","s","i","d","e","r"," ","b","o","l","d","i","n","g">>,
                              [i \in 1..Len(response.body.cadenceTip) |->
                                   SubSeq(response.body.cadenceTip, i, i)])

\* a key point that is only a dash: a bullet line without text
C18_Witness ==
    /\ Composed
    /\ \E i \in 1..Len(request.keyPoints) :
           ~isBlank(request.keyPoints[i]) /\ textOf(request.keyPoints[i]) = <<>>
    /\ contains(linesOf(response.body.body), <<"BULLET"," ">>)

endsWith(s, suffix) ==
    Len(s) >= Len(suffix) /\ SubSeq(s, Len(s) - Len(suffix) + 1, Len(s)) = suffix

\* C19: the body of every compose response ends with a signoff block after a blank line:
\* the supplied signature when it has text, otherwise the default signoff of the tone.
C19_BodyEndsWithSignoff ==
    Composed =>
        LET supplied == request.signature # undefined /\ ~isBlank(request.signature)
            signoff == IF supplied THEN core(request.signature)
                       ELSE IF request.tone \in {"friendly", "warm"}
                           THEN <<"A","l","l"," ","t","h","e"," ","b","e","s","t",",","\n","Y","o","u","r"," ","E","m","a","i","l"," ","A","g","e","n","t">>
                       ELSE <<"B","e","s","t"," ","r","e","g","a","r","d","s",",","\n","Y","o","u","r"," ","E","m","a","i","l"," ","A","g","e","n","t">>
        IN  endsWith(response.body.body, <<"\n","\n">> \o signoff)

\* an empty signature: the body ends with the blank line after the closing
C19_Witness ==
    /\ Composed
    /\ request.signature # undefined /\ isBlank(request.signature)
    /\ endsWith(response.body.body,
                FOLLOW_UP_TEMPLATES[request.tone].closing \o <<"\n","\n">>)

\* C20: after any sequence of Analyze clicks, input edits, Load-demo clicks and response
\* arrivals, the analysis result and the analysis error are never both non-null.
C20_AnalysisOrError ==
    ~(agent.analysis # null /\ agent.analysisError # null)

\* the validation message next to the analysis of an earlier email
C20_Witness ==
    /\ agent.analysis # null
    /\ agent.analysisError
           = Message("Drop in the email you want the agent to triage first.")
    /\ trim(agent.incomingEmail) = <<>>

\* C21: once resetDemo has cleared the analysis and the error, both stay null until
\* handleAnalyze is invoked again; the response of a request that was in flight when
\* resetDemo ran is not applied afterwards.
C21_ResetStaysCleared ==
    agent.resetSinceAnalyze => agent.analysis = null /\ agent.analysisError = null

\* the demo email is loaded, Analyze was not clicked since, and the panel shows the
\* analysis of the email that was in the form before
C21_StaleAnalysis ==
    /\ agent.resetSinceAnalyze
    /\ agent.incomingEmail = demoEmail
    /\ agent.analyzeFetches = <<>>
    /\ agent.analysis # null
    /\ agent.analysis = POST([mode |-> "analyze",
                               content |-> <<"T","h","a","n","k","s",","," ","p","l","e","a","s","e"," ","r","e","p","l","y"," ","b","y"," ","5","/","1","2",".">>,
                               threadHistory |-> <<>>, persona |-> <<>>]).response.body

\* each flag is TRUE exactly when a request of its kind has not settled, and there is at
\* most one such request of each kind
flagsMatchRequests ==
    /\ agent.analyzing <=> agent.analyzeFetches # <<>>
    /\ agent.composing <=> agent.composeFetches # <<>>
    /\ Len(agent.analyzeFetches) <= 1
    /\ Len(agent.composeFetches) <= 1

\* C22: analyzing (composing) is TRUE exactly while a request of that kind is in flight
\* and at most one of each kind is; the flag is set only by a click that passed the
\* blank check, and a click rejected by that check starts no request; every settled
\* request leaves the flag FALSE, and every request that was started does reset it.
C22_FlagWhileInFlight ==
    /\ []flagsMatchRequests
    /\ [][/\ agent'.analyzing /\ ~agent.analyzing => trim(agent.incomingEmail) # <<>>
          /\ agent'.composing /\ ~agent.composing => trim(agent.objective) # <<>>
          /\ trim(agent.incomingEmail) = <<>> =>
                 Len(agent'.analyzeFetches) <= Len(agent.analyzeFetches)
          /\ trim(agent.objective) = <<>> =>
                 Len(agent'.composeFetches) <= Len(agent.composeFetches)
          /\ Len(agent'.analyzeFetches) < Len(agent.analyzeFetches) => ~agent'.analyzing
          /\ Len(agent'.composeFetches) < Len(agent.composeFetches) => ~agent'.composing
         ]_vars
    /\ agent.analyzing ~> ~agent.analyzing
    /\ agent.composing ~> ~agent.composing

\* an analyze request ended with a thrown failure and its flag is back to FALSE; a
\* click on Draft with a blank objective was rejected and started no request
C22_Witness ==
    /\ ~agent.analyzing
    /\ agent.analyzeFetches = <<>>
    /\ agent.analysisError = Message("Failed to fetch")
    /\ agent.analysis = null
    /\ ~agent.composing
    /\ agent.composeFetches = <<>>
    /\ trim(agent.objective) = <<>>
    /\ agent.composeError = Message("Give the agent a clear objective to aim for.")

====
